---- MODULE Spec2Model ----
(***************************************************************************)
(* Document ingestion of the RAG backend: the Document rows                *)
(* (app/models/document.py, app/crud/crud_document.py), the Celery tasks   *)
(* of app/worker.py, the in-process pipeline of app/document_processing.py *)
(* and the Qdrant collection they write to.                                *)
(*                                                                         *)
(* Every database call (a query, or an assignment followed by commit) is   *)
(* one step; the steps of concurrently running tasks interleave freely.    *)
(* Calls into external services (document loaders, the LLM, the embedding  *)
(* model, Qdrant, the Celery broker, the file system) either return or     *)
(* raise; both outcomes are explored.  Values read from settings and the   *)
(* construction of clients belong to those external steps.                 *)
(***************************************************************************)
EXTENDS Integers, Sequences, FiniteSets, TLC

\* ------------------------------------------------------------------ bounds
MaxDocs == 1
MaxRuns == 2
MaxChunks == 2
MaxUpdates == 1
MaxUploads == 2
MaxConfigs == 3
MaxCalls == 2
MaxSessions == 3
MaxStreams == 1
MaxStreamLen == 2
MaxPosts == 2
MaxRoutes == 2
MaxWsCalls == 4
MaxDeletes == 2
MaxRequests == 2
MaxHistory == 2
MaxAssemblies == 1

\* ------------------------------------------------------- program constants
\* update_document_status(db, document_id, status): its parameter count
UpdateDocumentStatusParams == 3
\* arguments passed by the except clauses of document_processing.py
PipelineHandlerArgs == 4
\* arguments passed by the tasks of worker.py
WorkerCallArgs == 3
\* arguments passed where generate_embeddings_and_store marks completion
StoreCompletedArgs == 3

\* docs:    the documents table, NoDocument where there is no row
\* nextId:  the next primary key
\* attempt: history: how often update_document has reset each document
\* queue:   the messages waiting in the broker, per task and document
\* runs:    the executions of tasks and of process_document, in start order
\* index:   the points of the Qdrant collection
\* collection: whether the Qdrant collection exists
VARIABLES docs, nextId, attempt, queue, runs, index, collection

\* uploads: the calls of POST /documents/ so far, with their responses
VARIABLES uploads

\* configs:      the user_llm_configs table, NoConfig where there is no row
\* nextConfigId: the next primary key
\* calls:        the calls of set_default_config, in start order
\* lastSet:      history: per user, the config of the last set_default_config
\*               that returned it, 0 when none or once that config is deleted
VARIABLES configs, nextConfigId, calls, lastSet

\* deletes: the DELETE requests on configurations, in order: the id, the
\*          caller, the owner of the row found and the status answered
VARIABLES deletes

\* sessions:      the chat_sessions table, NoSession where there is no row
\* nextSessionId: the next primary key
\* streams:       the runs of generate_streaming_chat_response
\* messages:      the chat_messages table, in insertion order
VARIABLES sessions, nextSessionId, streams, messages

\* gens: the calls of POST /chats/{chat_id}/messages, each with the run of
\*       generate_chat_response it schedules
VARIABLES gens

\* llms:   the calls of the two get_llm functions, with what each returned
\* routes: the chat completions submitted through get_openrouter_llm
VARIABLES llms, routes

\* active_connections: WebSocketManager.active_connections, per chat
\* typing_users:       WebSocketManager.typing_users, per chat
\* connection_map:     WebSocketManager.connection_map, <<>> where no entry
\* wsCalls:            the calls of the manager's coroutines, in start order
\* closed:             the websockets whose peer is gone: a send on them raises
VARIABLES active_connections, typing_users, connection_map, wsCalls, closed

\* responses: the requests ErrorHandlerMiddleware.dispatch has answered: what
\*            call_next raised and the response sent for it
VARIABLES responses

\* assemblies: the message lists the two generation functions assemble, per
\*             request, from the same inputs
VARIABLES assemblies

docVars == <<docs, nextId, attempt, queue, runs, index, collection>>
configVars == <<configs, nextConfigId, calls, lastSet, deletes>>
chatVars == <<sessions, nextSessionId, streams, messages, gens>>

providerVars == <<llms, routes>>
pushVars == <<active_connections, typing_users, connection_map, wsCalls, closed>>
handlerVars == <<responses, assemblies>>

\* the state outside document ingestion
outside == <<uploads, configVars, chatVars, providerVars, pushVars, handlerVars>>

vars == <<docs, nextId, attempt, queue, runs, index, collection, outside>>

DocIds == 1..MaxDocs
Users == {"alice", "bob"}
\* the chat sessions with a websocket endpoint and the websockets opened on
\* them: chat_websocket admits the owner of the session only, here alice
\* with two connections on chat 1 and one on chat 2
WsChats == {1, 2}
Sockets == {"w1", "w2", "w3"}
\* the files a caller uploads, and file.content_type of each
Paths == {"uploads/a.pdf", "uploads/b.xyz"}
\* a plain text file
PlainPaths == {"uploads/c.txt"}
\* an HTML page
HtmlPaths == {"uploads/d.html"}
content_type(file_path) ==
    IF file_path = "uploads/a.pdf" THEN "application/pdf"
    ELSE IF file_path \in PlainPaths THEN "text/plain"
    ELSE IF file_path \in HtmlPaths THEN "text/html"
    ELSE "application/x-unknown"
None == "None"

\* models.DocumentStatus
QUEUED == "queued"
PROCESSING == "processing"
COMPLETED == "completed"
FAILED == "failed"

ImageTypes == {"image/png"}

\* the loaders table of get_document_loader
Loaders == {"application/pdf", "application/msword",
            "application/vnd.openxmlformats-officedocument.wordprocessingml.document",
            "text/csv",
            "application/vnd.openxmlformats-officedocument.spreadsheetml.sheet"}

\* get_document_loader: a loader, or ValueError("Unsupported mime type: ...")
get_document_loader(mime_type) ==
    IF mime_type \in ImageTypes THEN "UnstructuredImageLoader"
    ELSE IF mime_type \in Loaders THEN "Loader"
    ELSE "ValueError"

\* str(e) of the ValueError get_document_loader raises
UnsupportedMessage(mime_type) ==
    IF mime_type = "application/x-unknown"
    THEN "Unsupported mime type: application/x-unknown"
    ELSE "Unsupported mime type"

\* the chunks the splitter yields for a file: produced fresh on every run
ChunksOf(file_path) == 1..MaxChunks

Tasks == {"process_document", "generate_embeddings"}

\* ------------------------------------------------------------- crud reads
\* the value of a Document that is None
NoDocument == [status |-> None, error_message |-> None, file_path |-> None,
               mime_type |-> None, user_id |-> None]

\* get_document: the row, or None
get_document(d) == IF d \in DocIds THEN docs[d] ELSE NoDocument
Existing == {d \in DocIds : docs[d] # NoDocument}

\* ------------------------------------------------------------ run records
NewRun(kind, d, pc) ==
    [kind |-> kind, doc |-> d, pc |-> pc,
     att |-> IF d \in DocIds THEN attempt[d] ELSE 0,
     seen |-> None, mime |-> None, file_path |-> None, user_id |-> None,
     chunks |-> {}, nodes |-> {}, enrichFailed |-> {}, stages |-> <<>>,
     cause |-> None, raised |-> None,
     insertOk |-> FALSE,
     exitStatus |-> None, exitMsg |-> None]

RunIds == 1..Len(runs)
Active(r) == r \in RunIds /\ runs[r].pc \notin {"done", "returned", "raised"}
SetRun(r, rec) == runs' = [runs EXCEPT ![r] = rec]

\* messages waiting in the broker for one task and one document
Waiting(t, d) == queue[<<t, d>>]
Pending == LET S == Tasks \X DocIds
               Sum[T \in SUBSET S] ==
                   IF T = {} THEN 0
                   ELSE LET m == CHOOSE m \in T : TRUE
                        IN queue[m] + Sum[T \ {m}]
           IN Sum[S]
\* every message is consumed by a run: both are bounded together
RoomFor == Len(runs) + Pending < MaxRuns

\* a deployment before its first request, chat sessions apart: the collection
\* may have been created already (by an earlier deployment) or not yet
InitExceptSessions ==
    /\ docs = [d \in DocIds |-> NoDocument]
    /\ nextId = 1
    /\ attempt = [d \in DocIds |-> 0]
    /\ queue = [m \in Tasks \X DocIds |-> 0]
    /\ runs = <<>>
    /\ index = {}
    /\ collection \in BOOLEAN
    /\ uploads = <<>>
    /\ configs = [c \in 1..MaxConfigs |->
                    [user_id |-> None, model_type |-> None, is_default |-> None]]
    /\ nextConfigId = 1
    /\ calls = <<>>
    /\ lastSet = [u \in Users |-> 0]
    /\ deletes = <<>>
    /\ streams = <<>>
    /\ messages = <<>>
    /\ gens = <<>>
    /\ llms = <<>>
    /\ routes = <<>>
    /\ active_connections = [chat_id \in WsChats |-> {}]
    /\ typing_users = [chat_id \in WsChats |-> {}]
    /\ connection_map = [websocket \in Sockets |-> <<>>]
    /\ wsCalls = <<>>
    /\ closed = {}
    /\ responses = <<>>
    /\ assemblies = <<>>

\* a deployment before its first request
Init ==
    /\ InitExceptSessions
    /\ sessions = [c \in 1..MaxSessions |->
                     [user_id |-> None, parent_id |-> 0, is_deleted |-> FALSE]]
    /\ nextSessionId = 1

\* the same, in a deployment whose collection exists
InitWithCollection == Init /\ collection = TRUE

\* ------------------------------------------------------------- crud writes
\* create_document: a row with the column defaults (status queued, no
\* error message) and the next primary key
create_document(user_id, file_path, mime_type) ==
    /\ nextId \in DocIds
    /\ docs' = [docs EXCEPT ![nextId] =
                  [status |-> QUEUED, error_message |-> None,
                   file_path |-> file_path, mime_type |-> mime_type,
                   user_id |-> user_id]]
    /\ nextId' = nextId + 1
    /\ UNCHANGED <<attempt, queue, runs, index, collection, outside>>

\* the rows after document.status = status; db.commit()
StatusWritten(d, status) == [docs EXCEPT ![d].status = status]

\* update_document_status called with nargs positional arguments:
\* "TypeError" when the call does not match the signature (the body never
\* runs), "ResourceNotFoundError" when the row is gone, else "ok"
update_document_status_outcome(d, nargs) ==
    IF nargs # UpdateDocumentStatusParams THEN "TypeError"
    ELSE IF get_document(d) = NoDocument THEN "ResourceNotFoundError"
    ELSE "ok"

\* the rows after the call update_document_status(db, d, status, ...)
update_document_status(d, status, nargs) ==
    IF update_document_status_outcome(d, nargs) = "ok"
    THEN StatusWritten(d, status)
    ELSE docs

\* crud delete_document: removes the row when it exists; nothing else
delete_document(d) ==
    /\ d \in DocIds
    /\ docs' = IF get_document(d) # NoDocument THEN [docs EXCEPT ![d] = NoDocument] ELSE docs
    /\ UNCHANGED <<nextId, attempt, queue, runs, index, collection, outside>>

\* DELETE /documents/{id}: 404, 403, 500 when the file cannot be removed,
\* else the row is deleted
delete_document_endpoint(d, current_user, removed) ==
    /\ d \in DocIds
    /\ docs' = IF /\ get_document(d) # NoDocument
                  /\ docs[d].user_id = current_user
                  /\ removed
               THEN [docs EXCEPT ![d] = NoDocument]
               ELSE docs
    /\ UNCHANGED <<nextId, attempt, queue, runs, index, collection, outside>>

\* update_document: new file, status reset to queued, error message cleared;
\* None (no change) when the row does not exist
update_document(d, file_path, mime_type) ==
    /\ d \in DocIds
    /\ attempt[d] < MaxUpdates
    /\ IF get_document(d) # NoDocument
       THEN /\ docs' = [docs EXCEPT ![d] =
                          [@ EXCEPT !.file_path = file_path,
                                    !.mime_type = mime_type,
                                    !.status = QUEUED,
                                    !.error_message = None]]
            /\ attempt' = [attempt EXCEPT ![d] = @ + 1]
       ELSE UNCHANGED <<docs, attempt>>
    /\ UNCHANGED <<nextId, queue, runs, index, collection, outside>>

\* ------------------------------------------------------------ the broker
\* process_document_task.delay(document.id), as upload_document calls it
process_document_task_delay(d) ==
    /\ d \in Existing
    /\ RoomFor
    /\ queue' = [queue EXCEPT ![<<"process_document", d>>] = @ + 1]
    /\ UNCHANGED <<docs, nextId, attempt, runs, index, collection, outside>>

FirstPc(t) == IF t = "process_document" THEN "pdt_get" ELSE "get_get"

\* a worker receives a message and acknowledges it
Deliver(t, d) ==
    /\ Waiting(t, d) > 0
    /\ queue' = [queue EXCEPT ![<<t, d>>] = @ - 1]
    /\ runs' = Append(runs, NewRun(t, d, FirstPc(t)))
    /\ UNCHANGED <<docs, nextId, attempt, index, collection, outside>>

\* at-least-once delivery: a worker receives a message that stays queued
Redeliver(t, d) ==
    /\ Waiting(t, d) > 0
    /\ RoomFor
    /\ runs' = Append(runs, NewRun(t, d, FirstPc(t)))
    /\ UNCHANGED <<docs, nextId, attempt, queue, index, collection, outside>>

\* the status and the error message of document d in the rows ds
StatusIn(ds, d) == IF d \in DocIds /\ ds[d] # NoDocument THEN ds[d].status ELSE None
MessageIn(ds, d) ==
    IF d \in DocIds /\ ds[d] # NoDocument THEN ds[d].error_message ELSE None

\* the points one insertion call of run r leaves in the collection when it
\* has written the first k chunks; user_id is None when the payload has none
Points(r, d, chunks, k, user_id) ==
    {[document_id |-> d, chunk |-> c, run |-> r, user_id |-> user_id] :
        c \in {c \in chunks : c <= k}}

\* ------------------------------------------- worker: process_document_task
\* document = get_document(self.db, document_id)
pdt_get(r) ==
    /\ Active(r) /\ runs[r].pc = "pdt_get"
    /\ LET d == runs[r].doc
           document == get_document(d)
       IN SetRun(r, IF document = NoDocument
                    THEN [runs[r] EXCEPT !.pc = "pdt_except",
                                         !.cause = "DatabaseError"]
                    ELSE [runs[r] EXCEPT !.pc = "pdt_processing",
                                         !.att = attempt[d],
                                         !.seen = document.status])
    /\ UNCHANGED <<docs, nextId, attempt, queue, index, collection, outside>>

\* update_document_status(self.db, document_id, DocumentStatus.PROCESSING)
pdt_processing(r) ==
    /\ Active(r) /\ runs[r].pc = "pdt_processing"
    /\ LET d == runs[r].doc
           out == update_document_status_outcome(d, WorkerCallArgs)
       IN /\ docs' = update_document_status(d, PROCESSING, WorkerCallArgs)
          /\ SetRun(r, IF out = "ok"
                       THEN [runs[r] EXCEPT !.pc = "pdt_delay"]
                       ELSE [runs[r] EXCEPT !.pc = "pdt_except", !.cause = out])
    /\ UNCHANGED <<nextId, attempt, queue, index, collection, outside>>

\* generate_embeddings_task.delay(document_id); return success
pdt_delay(r, sent) ==
    /\ Active(r) /\ runs[r].pc = "pdt_delay"
    /\ LET d == runs[r].doc
       IN IF sent
          THEN /\ RoomFor
               /\ queue' = [queue EXCEPT ![<<"generate_embeddings", d>>] = @ + 1]
               /\ SetRun(r, [runs[r] EXCEPT !.pc = "done",
                                            !.exitStatus = StatusIn(docs, d),
                                            !.exitMsg = MessageIn(docs, d)])
          ELSE /\ UNCHANGED queue
               /\ SetRun(r, [runs[r] EXCEPT !.pc = "pdt_except",
                                            !.cause = "BrokerError"])
    /\ UNCHANGED <<docs, nextId, attempt, index, collection, outside>>

\* a variant of the except clause that returns the error without writing
\* the status
TaskExcept_silent(r) ==
    /\ UNCHANGED docs
    /\ SetRun(r, [runs[r] EXCEPT !.pc = "done",
                                 !.exitStatus = StatusIn(docs, runs[r].doc),
                                 !.exitMsg = MessageIn(docs, runs[r].doc)])

\* the except clause of a task: update_document_status(.., FAILED) with its
\* own failure logged and dropped; return error
TaskExcept(r) ==
    LET d == runs[r].doc
        after == update_document_status(d, FAILED, WorkerCallArgs)
    IN /\ docs' = after
       /\ SetRun(r, [runs[r] EXCEPT !.pc = "done",
                                    !.exitStatus = StatusIn(after, d),
                                    !.exitMsg = MessageIn(after, d)])

pdt_except(r) ==
    /\ Active(r) /\ runs[r].pc = "pdt_except"
    /\ TaskExcept(r)
    /\ UNCHANGED <<nextId, attempt, queue, index, collection, outside>>

\* ---------------------------------------- worker: generate_embeddings_task
\* document = get_document(self.db, document_id)
get_get(r) ==
    /\ Active(r) /\ runs[r].pc = "get_get"
    /\ LET d == runs[r].doc
           document == get_document(d)
       IN SetRun(r, IF document = NoDocument
                    THEN [runs[r] EXCEPT !.pc = "get_except",
                                         !.cause = "DatabaseError"]
                    ELSE [runs[r] EXCEPT !.pc = "get_processing",
                                         !.seen = document.status,
                                         !.user_id = document.user_id,
                                         !.file_path = document.file_path,
                                         !.mime = document.mime_type])
    /\ UNCHANGED <<docs, nextId, attempt, queue, index, collection, outside>>

\* update_document_status(self.db, document_id, DocumentStatus.PROCESSING)
get_processing(r) ==
    /\ Active(r) /\ runs[r].pc = "get_processing"
    /\ LET d == runs[r].doc
           out == update_document_status_outcome(d, WorkerCallArgs)
       IN /\ docs' = update_document_status(d, PROCESSING, WorkerCallArgs)
          /\ SetRun(r, IF out = "ok"
                       THEN [runs[r] EXCEPT !.pc = "get_setup"]
                       ELSE [runs[r] EXCEPT !.pc = "get_except", !.cause = out])
    /\ UNCHANGED <<nextId, attempt, queue, index, collection, outside>>

\* embedding model, Qdrant client and vector store are built and the texts
\* and metadatas of document.chunks are collected (the chunks are loaded
\* here, from the document as it is now); any of it may raise
get_setup(r, built) ==
    /\ Active(r) /\ runs[r].pc = "get_setup"
    /\ SetRun(r, IF built /\ get_document(runs[r].doc) # NoDocument
                 THEN [runs[r] EXCEPT !.pc = "get_add_texts",
                                      !.att = attempt[runs[r].doc],
                                      !.file_path = docs[runs[r].doc].file_path,
                                      !.chunks = ChunksOf(docs[runs[r].doc].file_path),
                                      !.nodes = ChunksOf(docs[runs[r].doc].file_path)]
                 ELSE [runs[r] EXCEPT !.pc = "get_except",
                                      !.cause = "SetupError"])
    /\ UNCHANGED <<docs, nextId, attempt, queue, index, collection, outside>>

\* vectorstore.add_texts(texts, metadatas): returns after every chunk is
\* written, or raises after the first k chunks (re-raised as LLMError); the
\* task never creates the collection, and nothing is written without one
get_add_texts(r, k) ==
    /\ Active(r) /\ runs[r].pc = "get_add_texts"
    /\ k \in 0..Cardinality(runs[r].nodes)
    /\ ~collection => k = 0
    /\ index' = index \cup Points(r, runs[r].doc, runs[r].nodes, k, runs[r].user_id)
    /\ SetRun(r, IF k = Cardinality(runs[r].nodes)
                 THEN [runs[r] EXCEPT !.pc = "get_completed",
                                      !.insertOk = TRUE]
                 ELSE [runs[r] EXCEPT !.pc = "get_except",
                                      !.cause = "LLMError"])
    /\ UNCHANGED <<docs, nextId, attempt, queue, collection, outside>>

\* update_document_status(self.db, document_id, DocumentStatus.COMPLETED)
get_completed(r) ==
    /\ Active(r) /\ runs[r].pc = "get_completed"
    /\ LET d == runs[r].doc
           out == update_document_status_outcome(d, WorkerCallArgs)
           after == update_document_status(d, COMPLETED, WorkerCallArgs)
       IN /\ docs' = after
          /\ SetRun(r, IF out = "ok"
                       THEN [runs[r] EXCEPT !.pc = "done",
                                            !.exitStatus = StatusIn(after, d),
                                            !.exitMsg = MessageIn(after, d)]
                       ELSE [runs[r] EXCEPT !.pc = "get_except", !.cause = out])
    /\ UNCHANGED <<nextId, attempt, queue, index, collection, outside>>

get_except(r) ==
    /\ Active(r) /\ runs[r].pc = "get_except"
    /\ TaskExcept(r)
    /\ UNCHANGED <<nextId, attempt, queue, index, collection, outside>>

\* ------------------------------------ document_processing: process_document
\* a caller awaits process_document(db, document) with a loaded Document
process_document_call(d) ==
    /\ d \in Existing
    /\ RoomFor
    /\ runs' = Append(runs, [NewRun("pipeline", d, "pd_load") EXCEPT
                                !.mime = docs[d].mime_type,
                                !.file_path = docs[d].file_path,
                                !.user_id = docs[d].user_id,
                                !.seen = docs[d].status])
    /\ UNCHANGED <<docs, nextId, attempt, queue, index, collection, outside>>

StageOutcomes == {"ok", "LoadError", "SplitError"}

\* the stages of process_document between the loader lookup and the
\* enrichment, in the order of the statements: loader.load(),
\* text_splitter.split_documents(pages) and, for text/html, the
\* Html2TextTransformer on the chunks
stages_before_enrichment(mime_type) ==
    <<"load", "split">>
    \o (IF mime_type = "text/html" THEN <<"html2text">> ELSE <<>>)

\* loader, pages, splitter, chunks and the metadata chain: the loader lookup
\* raises ValueError for an unsupported type, every later stage may raise
pd_load(r, outcome) ==
    /\ Active(r) /\ runs[r].pc = "pd_load"
    /\ outcome \in StageOutcomes
    /\ SetRun(r, IF get_document_loader(runs[r].mime) = "ValueError"
                 THEN [runs[r] EXCEPT !.pc = "pd_except", !.cause = "ValueError",
                                      !.raised = "ValueError"]
                 ELSE IF outcome # "ok"
                 THEN [runs[r] EXCEPT !.pc = "pd_except", !.cause = outcome,
                                      !.raised = outcome]
                 ELSE [runs[r] EXCEPT !.pc = "pd_enrich",
                                      !.stages = stages_before_enrichment(runs[r].mime),
                                      !.chunks = ChunksOf(runs[r].file_path)])
    /\ UNCHANGED <<docs, nextId, attempt, queue, index, collection, outside>>

\* a loop without the inner try: the first failure aborts the pipeline
enrich_aborting(rec, failed) ==
    IF failed = {}
    THEN [rec EXCEPT !.enrichFailed = failed, !.nodes = rec.chunks,
                     !.pc = "ges_get_collection"]
    ELSE [rec EXCEPT !.enrichFailed = failed, !.pc = "pd_except",
                     !.cause = "EnrichmentError", !.raised = "EnrichmentError"]

\* the enrichment loop: the metadata chain fails on the chunks in failed,
\* each failure is logged inside the loop, and the whole list of chunks goes
\* on to generate_embeddings_and_store
enrich(rec, failed) ==
    [rec EXCEPT !.enrichFailed = failed, !.nodes = rec.chunks,
                     !.pc = "ges_get_collection"]

pd_enrich(r, failed) ==
    /\ Active(r) /\ runs[r].pc = "pd_enrich"
    /\ failed \subseteq runs[r].chunks
    /\ SetRun(r, enrich(runs[r], failed))
    /\ UNCHANGED <<docs, nextId, attempt, queue, index, collection, outside>>

\* generate_embeddings_and_store: client.get_collection(...) returns when
\* the collection exists and raises when it does not
ges_get_collection(r) ==
    /\ Active(r) /\ runs[r].pc = "ges_get_collection"
    /\ SetRun(r, IF collection
                 THEN [runs[r] EXCEPT !.pc = "ges_setup"]
                 ELSE [runs[r] EXCEPT !.pc = "ges_create_collection"])
    /\ UNCHANGED <<docs, nextId, attempt, queue, index, collection, outside>>

\* except Exception: client.create_collection(...): creates the collection,
\* or raises when it exists by now; that exception leaves the inner handler
ges_create_collection(r) ==
    /\ Active(r) /\ runs[r].pc = "ges_create_collection"
    /\ collection' = TRUE
    /\ SetRun(r, IF collection
                 THEN [runs[r] EXCEPT !.pc = "ges_except",
                                      !.cause = "CollectionExists",
                                      !.raised = "CollectionExists"]
                 ELSE [runs[r] EXCEPT !.pc = "ges_setup"])
    /\ UNCHANGED <<docs, nextId, attempt, queue, index, outside>>

\* the vector store and the indexing metadata of every node; any of it may
\* raise
ges_setup(r, built) ==
    /\ Active(r) /\ runs[r].pc = "ges_setup"
    /\ SetRun(r, IF built
                 THEN [runs[r] EXCEPT !.pc = "ges_add_documents"]
                 ELSE [runs[r] EXCEPT !.pc = "ges_except",
                                      !.cause = "IndexSetupError",
                                      !.raised = "IndexSetupError"])
    /\ UNCHANGED <<docs, nextId, attempt, queue, index, collection, outside>>

\* vector_store.add_documents(nodes): returns after every node is written,
\* or raises after the first k; the payload carries no user_id
ges_add_documents(r, k) ==
    /\ Active(r) /\ runs[r].pc = "ges_add_documents"
    /\ k \in 0..Cardinality(runs[r].nodes)
    /\ index' = index \cup Points(r, runs[r].doc, runs[r].nodes, k, None)
    /\ SetRun(r, IF k = Cardinality(runs[r].nodes)
                 THEN [runs[r] EXCEPT !.pc = "ges_completed",
                                      !.insertOk = TRUE]
                 ELSE [runs[r] EXCEPT !.pc = "ges_except",
                                      !.cause = "IndexingError",
                                      !.raised = "IndexingError"])
    /\ UNCHANGED <<docs, nextId, attempt, queue, collection, outside>>

\* update_document_status(db, document_id, DocumentStatus.COMPLETED), then
\* both functions return
ges_completed(r) ==
    /\ Active(r) /\ runs[r].pc = "ges_completed"
    /\ LET d == runs[r].doc
           out == update_document_status_outcome(d, StoreCompletedArgs)
           after == update_document_status(d, COMPLETED, StoreCompletedArgs)
       IN /\ docs' = after
          /\ SetRun(r, IF out = "ok"
                       THEN [runs[r] EXCEPT !.pc = "returned",
                                            !.exitStatus = StatusIn(after, d),
                                            !.exitMsg = MessageIn(after, d)]
                       ELSE [runs[r] EXCEPT !.pc = "ges_except", !.cause = out,
                                            !.raised = out])
    /\ UNCHANGED <<nextId, attempt, queue, index, collection, outside>>

\* an except clause of the pipeline: update_document_status(db, id, FAILED,
\* str(e)) and then raise; when the call itself raises, its exception is the
\* one that leaves
PipelineExcept(r, nextPc) ==
    LET d == runs[r].doc
        out == update_document_status_outcome(d, PipelineHandlerArgs)
        after == update_document_status(d, FAILED, PipelineHandlerArgs)
    IN /\ docs' = after
       /\ SetRun(r, [runs[r] EXCEPT !.pc = nextPc,
                                    !.raised = IF out = "ok" THEN @ ELSE out,
                                    !.exitStatus = StatusIn(after, d),
                                    !.exitMsg = MessageIn(after, d)])

\* except Exception in generate_embeddings_and_store
ges_except(r) ==
    /\ Active(r) /\ runs[r].pc = "ges_except"
    /\ PipelineExcept(r, "pd_except")
    /\ UNCHANGED <<nextId, attempt, queue, index, collection, outside>>

\* except Exception in process_document: the exception leaves the pipeline
pd_except(r) ==
    /\ Active(r) /\ runs[r].pc = "pd_except"
    /\ PipelineExcept(r, "raised")
    /\ UNCHANGED <<nextId, attempt, queue, index, collection, outside>>

\* ------------------------------------------------------------------- spec
Next ==
    \/ \E u \in Users, p \in Paths : create_document(u, p, content_type(p))
    \/ \E d \in DocIds : delete_document(d)
    \/ \E d \in DocIds, u \in Users, removed \in BOOLEAN :
          delete_document_endpoint(d, u, removed)
    \/ \E d \in DocIds, p \in Paths : update_document(d, p, content_type(p))
    \/ \E d \in DocIds : process_document_task_delay(d)
    \/ \E t \in Tasks, d \in DocIds : Deliver(t, d)
    \/ \E t \in Tasks, d \in DocIds : Redeliver(t, d)
    \/ \E d \in DocIds : process_document_call(d)
    \/ \E r \in RunIds : pdt_get(r)
    \/ \E r \in RunIds : pdt_processing(r)
    \/ \E r \in RunIds, sent \in BOOLEAN : pdt_delay(r, sent)
    \/ \E r \in RunIds : pdt_except(r)
    \/ \E r \in RunIds : get_get(r)
    \/ \E r \in RunIds : get_processing(r)
    \/ \E r \in RunIds, built \in BOOLEAN : get_setup(r, built)
    \/ \E r \in RunIds, k \in 0..MaxChunks : get_add_texts(r, k)
    \/ \E r \in RunIds : get_completed(r)
    \/ \E r \in RunIds : get_except(r)
    \/ \E r \in RunIds, o \in StageOutcomes : pd_load(r, o)
    \/ \E r \in RunIds, f \in SUBSET (1..MaxChunks) : pd_enrich(r, f)
    \/ \E r \in RunIds : ges_get_collection(r)
    \/ \E r \in RunIds : ges_create_collection(r)
    \/ \E r \in RunIds, built \in BOOLEAN : ges_setup(r, built)
    \/ \E r \in RunIds, k \in 0..MaxChunks : ges_add_documents(r, k)
    \/ \E r \in RunIds : ges_completed(r)
    \/ \E r \in RunIds : ges_except(r)
    \/ \E r \in RunIds : pd_except(r)

Spec == Init /\ [][Next]_vars

\* ------------------------------------------- the worker tasks, run to the end
\* one step of run r of a worker task
TaskStep(r) ==
    \/ pdt_get(r)
    \/ pdt_processing(r)
    \/ \E sent \in BOOLEAN : pdt_delay(r, sent)
    \/ pdt_except(r)
    \/ get_get(r)
    \/ get_processing(r)
    \/ \E built \in BOOLEAN : get_setup(r, built)
    \/ \E k \in 0..MaxChunks : get_add_texts(r, k)
    \/ get_completed(r)
    \/ get_except(r)

NextWorker ==
    \/ \E u \in Users, p \in Paths : create_document(u, p, content_type(p))
    \/ \E d \in DocIds : process_document_task_delay(d)
    \/ \E t \in Tasks, d \in DocIds : Deliver(t, d)
    \/ \E t \in Tasks, d \in DocIds : Redeliver(t, d)
    \/ \E r \in 1..MaxRuns : TaskStep(r)

\* the broker delivers every message it holds and a worker that has taken a
\* task runs it to its return; the database answers every call
SpecWorker ==
    /\ Init
    /\ [][NextWorker]_vars
    /\ \A t \in Tasks, d \in DocIds : WF_vars(Deliver(t, d))
    /\ \A r \in 1..MaxRuns : WF_vars(TaskStep(r))

\* process_document awaited directly, on documents that include plain text
\* and HTML
NextPipeline ==
    \/ \E u \in Users, p \in Paths \cup PlainPaths \cup HtmlPaths :
          create_document(u, p, content_type(p))
    \/ \E d \in DocIds : process_document_call(d)
    \/ \E r \in RunIds, o \in StageOutcomes : pd_load(r, o)
    \/ \E r \in RunIds, f \in SUBSET (1..MaxChunks) : pd_enrich(r, f)
    \/ \E r \in RunIds : ges_get_collection(r)
    \/ \E r \in RunIds : ges_create_collection(r)
    \/ \E r \in RunIds, built \in BOOLEAN : ges_setup(r, built)
    \/ \E r \in RunIds, k \in 0..MaxChunks : ges_add_documents(r, k)
    \/ \E r \in RunIds : ges_completed(r)
    \/ \E r \in RunIds : ges_except(r)
    \/ \E r \in RunIds : pd_except(r)

SpecPipeline == Init /\ [][NextPipeline]_vars

\* -------------------------------------------------- POST /documents/ (upload)
\* the parameters of crud create_document, none of which has a default
CreateDocumentParams == {"db", "document", "user_id", "file_path", "mime_type"}
\* the keywords upload_document passes to create_document
UploadCreateKeywords == {"db", "user_id", "filename", "mime_type"}

\* a call by keywords binds when every keyword is a parameter and every
\* parameter without a default is given; otherwise it raises TypeError
CallBinds(keywords, params) == keywords = params

\* the record of one call of upload_document: sent says whether the broker
\* accepts a message during the call
UploadResponse(current_user, file_path, sent, status_code, d, n) ==
    [user |-> current_user, file_path |-> file_path, sent |-> sent,
     status_code |-> status_code, document_id |-> d,
     status |-> IF status_code = 200 THEN QUEUED ELSE None,
     enqueued |-> n]

\* upload_document: create_document(...), process_document_task.delay(id),
\* return the id with status "queued"; any exception becomes HTTP 500
upload_document(current_user, file_path, sent) ==
    /\ Len(uploads) < MaxUploads
    /\ IF ~CallBinds(UploadCreateKeywords, CreateDocumentParams)
       THEN /\ uploads' = Append(uploads,
                   UploadResponse(current_user, file_path, sent, 500, 0, 0))
            /\ UNCHANGED <<docs, nextId, queue>>
       ELSE /\ nextId \in DocIds
            /\ docs' = [docs EXCEPT ![nextId] =
                          [status |-> QUEUED, error_message |-> None,
                           file_path |-> file_path,
                           mime_type |-> content_type(file_path),
                           user_id |-> current_user]]
            /\ nextId' = nextId + 1
            /\ IF sent
               THEN /\ RoomFor
                    /\ queue' = [queue EXCEPT ![<<"process_document", nextId>>] = @ + 1]
                    /\ uploads' = Append(uploads,
                           UploadResponse(current_user, file_path, sent, 200, nextId, 1))
               ELSE /\ UNCHANGED queue
                    /\ uploads' = Append(uploads,
                           UploadResponse(current_user, file_path, sent, 500, nextId, 0))
    /\ UNCHANGED <<attempt, runs, index, collection, configVars, chatVars, providerVars, pushVars, handlerVars>>

\* uploads next to rows created directly and the task that claims them
NextUpload ==
    \/ \E u \in Users, p \in Paths, sent \in BOOLEAN : upload_document(u, p, sent)
    \/ \E u \in Users, p \in Paths : create_document(u, p, content_type(p))
    \/ \E d \in DocIds : process_document_task_delay(d)
    \/ \E d \in DocIds : Deliver("process_document", d)
    \/ \E r \in RunIds : pdt_get(r)
    \/ \E r \in RunIds : pdt_processing(r)
    \/ \E r \in RunIds, sent \in BOOLEAN : pdt_delay(r, sent)
    \/ \E r \in RunIds : pdt_except(r)

SpecUpload == InitWithCollection /\ [][NextUpload]_vars

\* -------------------------------------------------- user LLM configurations
ConfigIds == 1..MaxConfigs

\* a UserLLMConfig object: user_id and model_type are its columns;
\* is_default is the attribute of that name, None while nothing has set it
\* (the table of models/user_llm_config.py declares no such column)
NoConfig == [user_id |-> None, model_type |-> None, is_default |-> None]
\* the values True and False of that attribute
PyTrue == "True"
PyFalse == "False"

\* get_user_llm_config: the row, or None
get_user_llm_config(c) == IF c \in ConfigIds THEN configs[c] ELSE NoConfig

\* get_user_llm_configs: the ids of the user's rows
get_user_llm_configs(user_id) == {c \in ConfigIds : configs[c].user_id = user_id}

\* get_default_user_llm_config: the user's first row by id, 0 for None
get_default_user_llm_config(user_id) ==
    LET mine == get_user_llm_configs(user_id)
    IN IF mine = {} THEN 0
       ELSE CHOOSE c \in mine : \A other \in mine : c <= other

\* get_llm: the config the chat model is built from, 0 for the fallback
get_llm(user) == get_default_user_llm_config(user)

\* the fields UserLLMConfigUpdate declares
UserLLMConfigUpdateFields ==
    {"model_name", "api_key", "base_url", "model_type", "max_tokens", "top_k",
     "top_p", "temperature", "repetition_penalty", "seed"}

\* a schema that keeps keyword arguments it does not declare
model_dump_extra_kept(kwargs) == kwargs

\* UserLLMConfigUpdate(**kwargs).model_dump(exclude_unset=True): the given
\* keywords that are declared fields; the others are dropped on construction
model_dump(kwargs) ==
    [k \in DOMAIN kwargs \cap UserLLMConfigUpdateFields |-> kwargs[k]]

\* update_user_llm_config: setattr for every dumped key, commit, refresh
update_user_llm_config(row, kwargs) ==
    LET update_data == model_dump(kwargs)
    IN IF "is_default" \in DOMAIN update_data
       THEN [row EXCEPT !.is_default = update_data["is_default"]]
       ELSE row

\* POST /user-llm-configs/: a row for the caller, model_type any string;
\* building or storing the row may raise, and then nothing is stored
create_config(current_user, model_type, stored) ==
    /\ nextConfigId \in ConfigIds
    /\ stored
    /\ configs' = [configs EXCEPT ![nextConfigId] =
                      [user_id |-> current_user, model_type |-> model_type,
                       is_default |-> None]]
    /\ nextConfigId' = nextConfigId + 1
    /\ UNCHANGED <<calls, lastSet, deletes, docVars, uploads, chatVars, providerVars, pushVars, handlerVars>>

\* delete_user_llm_config(db, id): TRUE, and the row deleted, when
\* get_user_llm_config finds one; the function is not given the caller
delete_user_llm_config(c, current_user) ==
    get_user_llm_config(c) # NoConfig

\* DELETE /user-llm-configs/{id}: 404 unless delete_user_llm_config returned
\* True, else the route's status 204
delete_config(c, current_user) ==
    /\ c \in ConfigIds
    /\ Len(deletes) < MaxDeletes
    /\ LET found == get_user_llm_config(c)
           deleted == delete_user_llm_config(c, current_user)
       IN /\ configs' = IF deleted THEN [configs EXCEPT ![c] = NoConfig]
                                   ELSE configs
          /\ lastSet' = IF deleted
                        THEN [u \in Users |->
                                IF lastSet[u] = c THEN 0 ELSE lastSet[u]]
                        ELSE lastSet
          /\ deletes' = Append(deletes,
                           [id |-> c, caller |-> current_user,
                            owner |-> found.user_id,
                            status_code |-> IF deleted THEN 204 ELSE 404])
    /\ UNCHANGED <<nextConfigId, calls, docVars, uploads, chatVars, providerVars, pushVars, handlerVars>>

CallIds == 1..Len(calls)
InCall(i) == i \in CallIds /\ calls[i].pc # "done"
SetCall(i, rec) == calls' = [calls EXCEPT ![i] = rec]
Finish(rec, status_code) == [rec EXCEPT !.pc = "done", !.status_code = status_code]

\* set_default_config: get_user_llm_config and the ownership test (404)
sdc_get(current_user, c) ==
    /\ Len(calls) < MaxCalls
    /\ c \in ConfigIds
    /\ LET user_llm_config == get_user_llm_config(c)
           rec == [user |-> current_user, target |-> c, pc |-> "list",
                   todo |-> {}, status_code |-> 0,
                   overlap |-> \E i \in CallIds : InCall(i)]
       IN calls' = Append(calls,
                     IF user_llm_config = NoConfig
                        \/ user_llm_config.user_id # current_user
                     THEN Finish(rec, 404)
                     ELSE rec)
    /\ UNCHANGED <<configs, nextConfigId, lastSet, deletes, docVars, uploads, chatVars, providerVars, pushVars, handlerVars>>

\* for config in get_user_llm_configs(db, current_user.id): the query
sdc_list(i) ==
    /\ InCall(i) /\ calls[i].pc = "list"
    /\ LET others == get_user_llm_configs(calls[i].user) \ {calls[i].target}
       IN SetCall(i, [calls[i] EXCEPT !.todo = others,
                                      !.pc = IF others = {} THEN "set" ELSE "clear"])
    /\ UNCHANGED <<configs, nextConfigId, lastSet, deletes, docVars, uploads, chatVars, providerVars, pushVars, handlerVars>>

\* update_user_llm_config(db, config, UserLLMConfigUpdate(is_default=False))
\* for one config of the list; the refresh raises when the row is gone
sdc_clear(i, c) ==
    /\ InCall(i) /\ calls[i].pc = "clear"
    /\ c \in calls[i].todo
    /\ IF get_user_llm_config(c) = NoConfig
       THEN /\ SetCall(i, Finish(calls[i], 500))
            /\ UNCHANGED configs
       ELSE /\ configs' = [configs EXCEPT ![c] =
                      update_user_llm_config(configs[c], [is_default |-> PyFalse])]
            /\ SetCall(i, [calls[i] EXCEPT
                              !.todo = @ \ {c},
                              !.pc = IF calls[i].todo = {c} THEN "set" ELSE "clear"])
    /\ UNCHANGED <<nextConfigId, lastSet, deletes, docVars, uploads, chatVars, providerVars, pushVars, handlerVars>>

\* update_user_llm_config(db, user_llm_config, UserLLMConfigUpdate(
\* is_default=True)); return updated_config
sdc_set(i) ==
    /\ InCall(i) /\ calls[i].pc = "set"
    /\ LET c == calls[i].target
       IN IF get_user_llm_config(c) = NoConfig
          THEN /\ SetCall(i, Finish(calls[i], 500))
               /\ UNCHANGED <<configs, lastSet>>
          ELSE /\ configs' = [configs EXCEPT ![c] =
                         update_user_llm_config(configs[c], [is_default |-> PyTrue])]
               /\ SetCall(i, Finish(calls[i], 200))
               /\ lastSet' = [lastSet EXCEPT ![calls[i].user] = c]
    /\ UNCHANGED <<nextConfigId, deletes, docVars, uploads, chatVars, providerVars, pushVars, handlerVars>>

NextConfigs ==
    \/ \E u \in Users, stored \in BOOLEAN : create_config(u, "openai", stored)
    \/ \E c \in ConfigIds, u \in Users : delete_config(c, u)
    \/ \E u \in Users, c \in ConfigIds : sdc_get(u, c)
    \/ \E i \in CallIds : sdc_list(i)
    \/ \E i \in CallIds, c \in ConfigIds : sdc_clear(i, c)
    \/ \E i \in CallIds : sdc_set(i)

SpecConfigs == InitWithCollection /\ [][NextConfigs]_vars

\* ------------------------------------------------------ provider resolution
\* the model_type values a config is created with: two that both get_llm
\* functions dispatch on, one only llm_utils.get_llm knows, one neither knows
ModelTypes == {"openai", "openrouter", "llama", "custom"}

\* llm_manager.get_llm, the if/elif chain on user_llm_config.model_type: the
\* class it builds, None where no branch matches (the chain has no else, the
\* function ends and returns None)
get_llm_class(model_type) ==
    CASE model_type = "openai" -> "ChatOpenAI"
      [] model_type = "gemini" -> "ChatGoogleGenerativeAI"
      [] model_type = "claude" -> "ChatAnthropic"
      [] model_type = "mistral" -> "ChatMistralAI"
      [] model_type = "huggingface" -> "HuggingFaceEndpoint"
      [] model_type = "openrouter" -> "ChatOpenAI"
      [] OTHER -> None

\* llm_utils.get_llm, the if/elif chain on llm_config.model_type: the class
\* it builds; else: raise ValueError, turned into HTTPException(500)
llm_utils_get_llm_class(model_type) ==
    CASE model_type = "openai" -> "ChatOpenAI"
      [] model_type = "gemini" -> "ChatGoogleGenerativeAI"
      [] model_type = "mistral" -> "ChatMistralAI"
      [] model_type = "claude" -> "ChatAnthropic"
      [] model_type = "llama" -> "Ollama"
      [] model_type = "openrouter" -> "ChatOpenAI"
      [] OTHER -> "HTTPException"

\* what a call of get_llm ends with: the class of the object it returns,
\* None when it returns None, or the exception it raises
Returned(function, user, config, model_type, result) ==
    [function |-> function, user |-> user, config |-> config,
     model_type |-> model_type, result |-> result]

\* llm_manager.get_llm(user, db): the default config of the user decides;
\* without one the fallback HuggingFaceEndpoint is built from
\* settings.EMBEDDING_MODEL or ValueError is raised; a constructor may raise
llm_manager_get_llm(user, built) ==
    /\ Len(llms) < MaxCalls
    /\ LET config == get_default_user_llm_config(user)
           model_type == get_user_llm_config(config).model_type
           class == IF config = 0 THEN "HuggingFaceEndpoint"
                    ELSE get_llm_class(model_type)
       IN llms' = Append(llms,
              Returned("llm_manager.get_llm", user, config, model_type,
                       IF class = None THEN None
                       ELSE IF built THEN class ELSE "Exception"))
    /\ UNCHANGED <<routes, configVars, docVars, uploads, chatVars, pushVars, handlerVars>>

\* llm_utils.get_llm(llm_config): every exception of the dispatch, the one
\* of the else branch included, becomes HTTPException(500)
llm_utils_get_llm(config, built) ==
    /\ Len(llms) < MaxCalls
    /\ config \in ConfigIds /\ configs[config] # NoConfig
    /\ LET model_type == configs[config].model_type
           class == llm_utils_get_llm_class(model_type)
       IN llms' = Append(llms,
              Returned("llm_utils.get_llm", configs[config].user_id, config,
                       model_type, IF built THEN class ELSE "HTTPException"))
    /\ UNCHANGED <<routes, configVars, docVars, uploads, chatVars, pushVars, handlerVars>>

NextResolve ==
    \/ \E u \in Users, t \in ModelTypes, stored \in BOOLEAN : create_config(u, t, stored)
    \/ \E u \in Users, built \in BOOLEAN : llm_manager_get_llm(u, built)
    \/ \E c \in ConfigIds, built \in BOOLEAN : llm_utils_get_llm(c, built)

SpecResolve == InitWithCollection /\ [][NextResolve]_vars

\* ------------------------------------------------------------- OpenRouter
\* the model names of an openrouter config: one that is no fallback, one that
\* is also the first fallback
OpenRouterModelNames == {"openai/gpt-4-turbo", "anthropic/claude-2.1"}
\* the fallback models get_openrouter_llm submits after the primary
FallbackModels == <<"anthropic/claude-2.1", "mistralai/mixtral-8x7b-instruct">>
GatewayModels == OpenRouterModelNames \cup {FallbackModels[k] : k \in DOMAIN FallbackModels}

\* a variant that submits the primary model alone
get_openrouter_llm_primary_only(model_name) ==
    [model |-> model_name, route |-> "fallback", models |-> <<model_name>>,
     order |-> <<"OpenAI", "Anthropic", "Together">>, allow_fallbacks |-> TRUE,
     data_collection |-> "deny"]

\* get_openrouter_llm: the ChatOpenAI whose model_kwargs go into every
\* request to settings.OPENROUTER_BASE_URL
get_openrouter_llm(model_name) ==
    [model |-> model_name, route |-> "fallback",
     models |-> <<model_name>> \o FallbackModels,
     order |-> <<"OpenAI", "Anthropic", "Together">>, allow_fallbacks |-> TRUE,
     data_collection |-> "deny"]

RouteIds == 1..Len(routes)
SetRoute(i, rec) == routes' = [routes EXCEPT ![i] = rec]

\* get_openrouter_llm(llm_config) and one chat completion through the
\* object it returns, while the gateway can reach the models of available;
\* the constructor may raise, and then LLMError or OpenRouterError is raised
\* and nothing is submitted
openrouter_invoke(model_name, available, built) ==
    /\ Len(routes) < MaxRoutes
    /\ routes' = Append(routes,
          [request |-> get_openrouter_llm(model_name), available |-> available,
           attempts |-> <<>>, pc |-> IF built THEN "routing" ELSE "LLMError"])
    /\ UNCHANGED <<llms, configVars, docVars, uploads, chatVars, pushVars, handlerVars>>

\* whether the gateway may try the model at position k of the request: the
\* model named first, then the others while the request asks for fallback
\* routing
MayTry(request, k) ==
    /\ k \in 1..Len(request.models)
    /\ k > 1 => request.route = "fallback" /\ request.allow_fallbacks

\* the gateway tries the next model of the request: it answers when the
\* model is available
gateway_attempt(i) ==
    /\ i \in RouteIds /\ routes[i].pc = "routing"
    /\ LET k == Len(routes[i].attempts) + 1
           request == routes[i].request
       IN /\ MayTry(request, k)
          /\ SetRoute(i, [routes[i] EXCEPT
                !.attempts = Append(@, request.models[k]),
                !.pc = IF request.models[k] \in routes[i].available
                       THEN "answered" ELSE "routing"])
    /\ UNCHANGED <<llms, configVars, docVars, uploads, chatVars, pushVars, handlerVars>>

\* no model is left to try: the gateway answers with a routing error
gateway_error(i) ==
    /\ i \in RouteIds /\ routes[i].pc = "routing"
    /\ ~MayTry(routes[i].request, Len(routes[i].attempts) + 1)
    /\ SetRoute(i, [routes[i] EXCEPT !.pc = "routing_error"])
    /\ UNCHANGED <<llms, configVars, docVars, uploads, chatVars, pushVars, handlerVars>>

NextRoute ==
    \/ \E m \in OpenRouterModelNames, available \in SUBSET GatewayModels,
          built \in BOOLEAN : openrouter_invoke(m, available, built)
    \/ \E i \in RouteIds : gateway_attempt(i)
    \/ \E i \in RouteIds : gateway_error(i)

SpecRoute == InitWithCollection /\ [][NextRoute]_vars

\* ------------------------------------------------------- WebSocketManager
\* chat_websocket passes the chat_id of its path and the id of its user
SocketChat(websocket) == IF websocket = "w3" THEN 2 ELSE 1
SocketUser(websocket) == "alice"

\* the typing_status message and a message a caller broadcasts
TypingStatus(users) ==
    [type |-> "typing_status", typing_users |-> users, content |-> None]
ChatBroadcast == [type |-> "message_complete", typing_users |-> {}, content |-> "q1"]

WsCallIds == 1..Len(wsCalls)
\* a call of a coroutine of the manager. stack: the broadcast_message loops
\* it is inside, innermost last; pc: the await it is suspended at; message:
\* what it broadcasts; peers: the connections of the chat when it began to
\* broadcast; tried, failed, got: the websockets it has sent on, those whose
\* send raised, and the deliveries made; data: the type of the received
\* data the handler makes the call for, None when it is not made for any
WsCall(op, websocket, chat_id, user_id, pc, message) ==
    [op |-> op, websocket |-> websocket, chat_id |-> chat_id, user_id |-> user_id,
     data |-> None,
     stack |-> <<>>, pc |-> pc, status |-> "running", error |-> None,
     message |-> message, was_typing |-> FALSE, peers |-> {},
     tried |-> {}, failed |-> {}, got |-> {}]

\* for connection in self.active_connections[chat_id]: a set iterator, which
\* remembers the size of the set it was made for
Loop(chat_id, message, connections) ==
    [chat_id |-> chat_id, message |-> message,
     used |-> Cardinality(connections[chat_id]), visited |-> {}, current |-> None]

\* the coroutine runs on from the innermost loop to its next
\* connection.send_json: next() of a set iterator raises RuntimeError (Set
\* changed size during iteration) when the size of the set is no longer the
\* remembered one, else it yields some connection not yet visited; an
\* exhausted loop returns into the loop around it, and the coroutine returns
\* when no loop is left
RECURSIVE Advance(_, _)
Advance(stack, connections) ==
    IF stack = <<>>
    THEN {[stack |-> <<>>, pc |-> None, status |-> "returned", error |-> None]}
    ELSE LET loop == stack[Len(stack)]
             live == connections[loop.chat_id]
         IN IF Cardinality(live) # loop.used
            THEN {[stack |-> <<>>, pc |-> None, status |-> "raised",
                   error |-> "RuntimeError"]}
            ELSE IF live \ loop.visited = {}
            THEN Advance(SubSeq(stack, 1, Len(stack) - 1), connections)
            ELSE {[stack |-> [stack EXCEPT ![Len(stack)] =
                                [loop EXCEPT !.current = c, !.visited = @ \cup {c}]],
                   pc |-> "send_json", status |-> "running", error |-> None] :
                  c \in live \ loop.visited}

\* the call record after the coroutine has run on to outcome: when it is
\* suspended again it has called send_json on the connection it reached
Suspended(call, outcome) ==
    [call EXCEPT !.stack = outcome.stack, !.pc = outcome.pc,
                 !.status = outcome.status, !.error = outcome.error,
                 !.tried = IF outcome.pc = "send_json"
                           THEN @ \cup {outcome.stack[Len(outcome.stack)].current}
                           ELSE @]

\* a variant of disconnect that leaves the connection in the set
disconnect_keeping(connections, websocket, chat_id) == connections

\* disconnect: self.active_connections[chat_id].discard(websocket)
disconnect_connections(connections, websocket, chat_id) ==
    [connections EXCEPT ![chat_id] = @ \ {websocket}]

\* disconnect: if websocket in self.connection_map: del ...
disconnect_map(map, websocket) == [map EXCEPT ![websocket] = <<>>]

\* a variant of disconnect that clears the user's typing status in every chat
disconnect_typing_everywhere(typing, chat_id, user_id) ==
    [c \in WsChats |-> typing[c] \ {user_id}]

\* a variant of disconnect that leaves the typing set as it is
disconnect_typing_kept(typing, chat_id, user_id) == typing

\* disconnect: if user_id in self.typing_users[chat_id]: remove(user_id)
disconnect_typing(typing, chat_id, user_id) ==
    [typing EXCEPT ![chat_id] = @ \ {user_id}]

\* the handler of a websocket is inside its receive loop: connect has
\* returned and the finally clause has not begun
Serving(websocket) ==
    /\ \E i \in WsCallIds : /\ wsCalls[i].op = "connect"
                             /\ wsCalls[i].websocket = websocket
                             /\ wsCalls[i].status = "returned"
    /\ \A i \in WsCallIds :
          wsCalls[i].websocket = websocket
          => wsCalls[i].op # "disconnect" /\ wsCalls[i].status # "running"

\* connect(websocket, chat_id, user_id) begins: await websocket.accept()
ws_connect(websocket) ==
    /\ Len(wsCalls) < MaxWsCalls
    /\ \A i \in WsCallIds : wsCalls[i].websocket # websocket
    /\ wsCalls' = Append(wsCalls,
          WsCall("connect", websocket, SocketChat(websocket), SocketUser(websocket),
                 "accept", TypingStatus({})))
    /\ UNCHANGED <<active_connections, typing_users, connection_map, closed>>
    /\ UNCHANGED <<docVars, uploads, configVars, chatVars, providerVars, handlerVars>>

\* accept returns or raises; after it the connection is added and mapped,
\* and the typing status, when somebody is typing, is sent to it
ws_accept(i) ==
    /\ i \in WsCallIds /\ wsCalls[i].status = "running" /\ wsCalls[i].pc = "accept"
    /\ LET call == wsCalls[i]
           websocket == call.websocket
           chat_id == call.chat_id
       IN IF websocket \in closed
          THEN /\ wsCalls' = [wsCalls EXCEPT ![i] =
                    [call EXCEPT !.status = "raised", !.error = "AcceptError",
                                 !.pc = None]]
               /\ UNCHANGED <<active_connections, connection_map>>
          ELSE /\ active_connections' =
                    [active_connections EXCEPT ![chat_id] = @ \cup {websocket}]
               /\ connection_map' =
                    [connection_map EXCEPT ![websocket] = <<chat_id, call.user_id>>]
               /\ wsCalls' = [wsCalls EXCEPT ![i] =
                    IF typing_users[chat_id] # {}
                    THEN [call EXCEPT !.pc = "send_json", !.tried = {websocket},
                                      !.message = TypingStatus(typing_users[chat_id])]
                    ELSE [call EXCEPT !.status = "returned", !.pc = None]]
    /\ UNCHANGED <<typing_users, closed>>
    /\ UNCHANGED <<docVars, uploads, configVars, chatVars, providerVars, handlerVars>>

\* the send of connect returns or raises
ws_connect_send(i) ==
    /\ i \in WsCallIds /\ wsCalls[i].status = "running"
    /\ wsCalls[i].op = "connect" /\ wsCalls[i].pc = "send_json"
    /\ LET call == wsCalls[i]
           websocket == call.websocket
       IN wsCalls' = [wsCalls EXCEPT ![i] =
             IF websocket \in closed
             THEN [call EXCEPT !.status = "raised", !.error = "SendError",
                               !.pc = None, !.failed = {websocket}]
             ELSE [call EXCEPT !.status = "returned", !.pc = None,
                               !.got = {<<websocket, call.message>>}]]
    /\ UNCHANGED <<active_connections, typing_users, connection_map, closed>>
    /\ UNCHANGED <<docVars, uploads, configVars, chatVars, providerVars, handlerVars>>

\* disconnect(websocket, chat_id, user_id), up to its first send or its
\* return
disconnect(websocket) ==
    /\ LET chat_id == SocketChat(websocket)
           user_id == SocketUser(websocket)
           connections == disconnect_connections(active_connections, websocket, chat_id)
           was_typing == user_id \in typing_users[chat_id]
           typing == disconnect_typing(typing_users, chat_id, user_id)
           message == TypingStatus(typing[chat_id])
           call == [WsCall("disconnect", websocket, chat_id, user_id, None, message)
                      EXCEPT !.was_typing = was_typing,
                             !.peers = connections[chat_id]]
       IN /\ active_connections' = connections
          /\ connection_map' = disconnect_map(connection_map, websocket)
          /\ typing_users' = typing
          /\ \E outcome \in Advance(IF was_typing
                                     THEN <<Loop(chat_id, message, connections)>>
                                     ELSE <<>>, connections) :
                wsCalls' = Append(wsCalls, Suspended(call, outcome))
    /\ UNCHANGED closed
    /\ UNCHANGED <<docVars, uploads, configVars, chatVars, providerVars, handlerVars>>

\* the finally clause of a handler that is inside its receive loop
ws_disconnect(websocket) ==
    /\ Len(wsCalls) < MaxWsCalls
    /\ Serving(websocket)
    /\ disconnect(websocket)

\* broadcast_typing(chat_id, user_id, is_typing), made by the handler for
\* received data of type data, up to its first send or its return
broadcast_typing(websocket, is_typing, data) ==
    /\ LET chat_id == SocketChat(websocket)
           user_id == SocketUser(websocket)
           typing == [typing_users EXCEPT ![chat_id] =
                        IF is_typing THEN @ \cup {user_id} ELSE @ \ {user_id}]
           message == TypingStatus(typing[chat_id])
           call == [WsCall("broadcast_typing", websocket, chat_id, user_id, None,
                           message)
                      EXCEPT !.peers = active_connections[chat_id],
                             !.data = data]
       IN /\ typing_users' = typing
          /\ \E outcome \in Advance(<<Loop(chat_id, message, active_connections)>>,
                                     active_connections) :
                wsCalls' = Append(wsCalls, Suspended(call, outcome))
    /\ UNCHANGED <<active_connections, connection_map, closed>>
    /\ UNCHANGED <<docVars, uploads, configVars, chatVars, providerVars, handlerVars>>

\* a typing notification received by a handler inside its receive loop
ws_broadcast_typing(websocket, is_typing) ==
    /\ Len(wsCalls) < MaxWsCalls
    /\ Serving(websocket)
    /\ broadcast_typing(websocket, is_typing, "typing")

\* broadcast_message(chat_id, message), up to its first send or its return
ws_broadcast_message(chat_id) ==
    /\ Len(wsCalls) < MaxWsCalls
    /\ LET call == [WsCall("broadcast_message", None, chat_id, None, None,
                           ChatBroadcast)
                      EXCEPT !.peers = active_connections[chat_id]]
       IN \E outcome \in Advance(<<Loop(chat_id, ChatBroadcast, active_connections)>>,
                                  active_connections) :
             wsCalls' = Append(wsCalls, Suspended(call, outcome))
    /\ UNCHANGED <<active_connections, typing_users, connection_map, closed>>
    /\ UNCHANGED <<docVars, uploads, configVars, chatVars, providerVars, handlerVars>>

\* await connection.send_json(message) inside broadcast_message returns or
\* raises. except Exception: await self.disconnect(connection,
\* *self.connection_map[connection]) -- KeyError when the entry is gone,
\* else disconnect runs inside the loop and may broadcast in turn
ws_send(i) ==
    /\ i \in WsCallIds /\ wsCalls[i].status = "running"
    /\ wsCalls[i].op # "connect" /\ wsCalls[i].pc = "send_json"
    /\ LET call == wsCalls[i]
           loop == call.stack[Len(call.stack)]
           connection == loop.current
       IN IF connection \notin closed
          THEN /\ \E outcome \in Advance(call.stack, active_connections) :
                     wsCalls' = [wsCalls EXCEPT ![i] =
                        Suspended([call EXCEPT
                                     !.got = @ \cup {<<connection, loop.message>>}],
                                  outcome)]
               /\ UNCHANGED <<active_connections, typing_users, connection_map>>
          ELSE IF connection_map[connection] = <<>>
          THEN /\ wsCalls' = [wsCalls EXCEPT ![i] =
                     [call EXCEPT !.failed = @ \cup {connection}, !.stack = <<>>,
                                  !.pc = None, !.status = "raised",
                                  !.error = "KeyError"]]
               /\ UNCHANGED <<active_connections, typing_users, connection_map>>
          ELSE LET chat_id == connection_map[connection][1]
                   user_id == connection_map[connection][2]
                   connections ==
                       disconnect_connections(active_connections, connection, chat_id)
                   was_typing == user_id \in typing_users[chat_id]
                   typing == disconnect_typing(typing_users, chat_id, user_id)
                   stack == IF was_typing
                            THEN Append(call.stack,
                                   Loop(chat_id, TypingStatus(typing[chat_id]),
                                        connections))
                            ELSE call.stack
               IN /\ active_connections' = connections
                  /\ connection_map' = disconnect_map(connection_map, connection)
                  /\ typing_users' = typing
                  /\ \E outcome \in Advance(stack, connections) :
                        wsCalls' = [wsCalls EXCEPT ![i] =
                           Suspended([call EXCEPT !.failed = @ \cup {connection}],
                                     outcome)]
    /\ UNCHANGED closed
    /\ UNCHANGED <<docVars, uploads, configVars, chatVars, providerVars, handlerVars>>

\* the peer of a websocket goes away: from now on accept and send raise
peer_closes(websocket) ==
    /\ websocket \notin closed
    /\ \E i \in WsCallIds : wsCalls[i].websocket = websocket
    /\ closed' = closed \cup {websocket}
    /\ UNCHANGED <<active_connections, typing_users, connection_map, wsCalls>>
    /\ UNCHANGED <<docVars, uploads, configVars, chatVars, providerVars, handlerVars>>

NextPush ==
    \/ \E w \in Sockets : ws_connect(w)
    \/ \E i \in WsCallIds : ws_accept(i)
    \/ \E i \in WsCallIds : ws_connect_send(i)
    \/ \E w \in Sockets : ws_disconnect(w)
    \/ \E w \in Sockets, is_typing \in BOOLEAN : ws_broadcast_typing(w, is_typing)
    \/ \E c \in WsChats : ws_broadcast_message(c)
    \/ \E i \in WsCallIds : ws_send(i)
    \/ \E w \in Sockets : peer_closes(w)

SpecPush == InitWithCollection /\ [][NextPush]_vars

\* ------------------------------------------------- chat_websocket, the handler
\* the calls the handler of a websocket has made, in order
CallsOf(websocket) == {i \in WsCallIds : wsCalls[i].websocket = websocket}
LastCall(websocket) ==
    CHOOSE i \in CallsOf(websocket) : \A other \in CallsOf(websocket) : other <= i

\* the handler awaits websocket.receive_json(): connect has returned, or the
\* broadcast_typing made for a typing notification has
Receiving(websocket) ==
    /\ CallsOf(websocket) # {}
    /\ LET last == wsCalls[LastCall(websocket)]
       IN /\ last.status = "returned"
          /\ \/ last.op = "connect"
             \/ last.op = "broadcast_typing" /\ last.data = "typing"

\* an exception is on its way to `except Exception` and the finally clause:
\* a call inside the try raised, or broadcast_typing(.., True) returned for a
\* message and `async for chunk in generate_chat_response(...)` is evaluated:
\* generate_chat_response is a coroutine function without a yield, its
\* result has no __aiter__, and the statement raises TypeError
Excepting(websocket) ==
    /\ CallsOf(websocket) # {}
    /\ LET last == wsCalls[LastCall(websocket)]
       IN /\ last.op = "broadcast_typing"
          /\ \/ last.status = "raised"
             \/ last.status = "returned" /\ last.data = "message"

\* the handler is over: connect raised (it is outside the try), or the
\* disconnect of the finally clause has returned or raised
Ended(websocket) ==
    \E i \in CallsOf(websocket) :
        /\ wsCalls[i].status # "running"
        /\ \/ wsCalls[i].op = "disconnect"
           \/ wsCalls[i].op = "connect" /\ wsCalls[i].status = "raised"

\* data = await websocket.receive_json() returns: a typing notification, or
\* a message, for which the typing indicator is raised first
chat_websocket_receive(websocket, data, is_typing) ==
    /\ Len(wsCalls) < MaxWsCalls
    /\ Receiving(websocket)
    /\ websocket \notin closed
    /\ data = "message" => is_typing
    /\ broadcast_typing(websocket, is_typing, data)

\* except Exception: log; finally: await ws_manager.disconnect(...) -- after
\* an exception inside the try, receive_json's own (the peer has gone, the
\* data is not what the handler expects) included
chat_websocket_finally(websocket) ==
    /\ Len(wsCalls) < MaxWsCalls
    /\ Receiving(websocket) \/ Excepting(websocket)
    /\ disconnect(websocket)

NextHandler ==
    \/ \E w \in Sockets : ws_connect(w)
    \/ \E i \in WsCallIds : ws_accept(i)
    \/ \E i \in WsCallIds : ws_connect_send(i)
    \/ \E w \in Sockets, data \in {"typing", "message"}, is_typing \in BOOLEAN :
          chat_websocket_receive(w, data, is_typing)
    \/ \E w \in Sockets : chat_websocket_finally(w)
    \/ \E i \in WsCallIds : ws_send(i)
    \/ \E w \in Sockets : peer_closes(w)

SpecHandler == InitWithCollection /\ [][NextHandler]_vars


\* ------------------------------------------------------------ chat sessions
SessionIds == 1..MaxSessions

\* a ChatSession row; parent_id 0 is None (validate_parent_id turns 0 into
\* None)
NoSession == [user_id |-> None, parent_id |-> 0, is_deleted |-> FALSE]

\* get_chat_session: the row when it exists and is not soft-deleted
get_chat_session(chat_id) ==
    IF chat_id \in SessionIds /\ ~sessions[chat_id].is_deleted
    THEN sessions[chat_id] ELSE NoSession

\* create_chat: a row of the caller under parent_id, a foreign key to any
\* existing row
create_chat(user_id, parent_id) ==
    /\ nextSessionId \in SessionIds
    /\ parent_id = 0 \/ (parent_id \in SessionIds /\ sessions[parent_id] # NoSession)
    /\ sessions' = [sessions EXCEPT ![nextSessionId] =
                       [user_id |-> user_id, parent_id |-> parent_id,
                        is_deleted |-> FALSE]]
    /\ nextSessionId' = nextSessionId + 1
    /\ UNCHANGED <<streams, messages, gens, docVars, uploads, configVars, providerVars, pushVars, handlerVars>>

\* DELETE /chats/{chat_id}: 404 unless the caller owns a session that is not
\* deleted; delete_chat_session sets is_deleted
delete_chat(chat_id, current_user) ==
    /\ chat_id \in SessionIds
    /\ get_chat_session(chat_id) # NoSession
    /\ get_chat_session(chat_id).user_id = current_user
    /\ sessions' = [sessions EXCEPT ![chat_id].is_deleted = TRUE]
    /\ UNCHANGED <<nextSessionId, streams, messages, gens, docVars, uploads, configVars, providerVars, pushVars, handlerVars>>

\* chat.children: the relationship, every row whose parent_id is chat
children(chat) ==
    {c \in SessionIds : sessions[c] # NoSession /\ sessions[c].parent_id = chat}

\* the sessions _process_children attaches a last message to, below chat
RECURSIVE process_children(_)
process_children(chat) ==
    UNION {{child} \cup process_children(child) :
              child \in {c \in children(chat) : ~sessions[c].is_deleted}}

\* ChatSessionResponse of a session: the session and, through children, the
\* response of every row of the relationship
RECURSIVE ChatSessionResponse(_)
ChatSessionResponse(chat) ==
    {chat} \cup UNION {ChatSessionResponse(child) : child \in children(chat)}

\* get_user_chat_sessions: the user's root sessions that are not deleted
get_user_chat_sessions(user_id) ==
    {c \in SessionIds : /\ sessions[c] # NoSession
                        /\ sessions[c].user_id = user_id
                        /\ sessions[c].parent_id = 0
                        /\ ~sessions[c].is_deleted}

\* GET /chats/tree: every session in the serialized answer
get_chat_tree(current_user) ==
    UNION {ChatSessionResponse(chat) : chat \in get_user_chat_sessions(current_user)}

NextSessions ==
    \/ \E u \in Users, parent \in 0..MaxSessions : create_chat(u, parent)
    \/ \E c \in SessionIds, u \in Users : delete_chat(c, u)

SpecSessions == InitWithCollection /\ [][NextSessions]_vars

\* ------------------------------------------------------- streaming response
\* text is a sequence of characters; the texts one provider chunk can carry
ChunkTexts == {<<"a">>, <<"b">>}
\* the streams llm.astream(messages) can produce
ProviderStreams == UNION {[1..n -> ChunkTexts] : n \in 0..MaxStreamLen}

\* the texts a user sends
UserTexts == {"q1", "q2"}

\* the response None: a text is a sequence of characters and this is none of
\* them
NoResponse == <<None>>

\* a ChatMessageCreate: response defaults to None, is_typing to False
ChatMessageCreate(message, response, is_typing) ==
    [message |-> message, response |-> response, is_typing |-> is_typing]

\* create_message: a row with the fields of the ChatMessageCreate
create_message(rows, message, chat_id, user_id) ==
    Append(rows, [chat_session_id |-> chat_id, user_id |-> user_id,
                  message |-> message.message, response |-> message.response,
                  is_typing |-> message.is_typing])

\* a variant whose handler stores what was generated before it re-raises
generation_except_saving(rows, message, chat_id, user_id) ==
    create_message(rows, message, chat_id, user_id)

\* except Exception as e: logger.error(...); raise -- of both generation
\* functions: the chat_messages table after the handler
generation_except(rows, message, chat_id, user_id) == rows

StreamIds == 1..Len(streams)
SetStream(i, rec) == streams' = [streams EXCEPT ![i] = rec]
Streaming(i) == i \in StreamIds /\ streams[i].pc \notin {"done", "raised"}

\* generate_streaming_chat_response is called: get_llm, the default config
\* and the message list; any of it may raise
gs_call(user, chat_id, message, built) ==
    /\ Len(streams) < MaxStreams
    /\ Len(streams) + Len(gens) < MaxPosts
    /\ streams' = Append(streams,
          [user |-> user, chat_id |-> chat_id, message |-> message,
           pc |-> IF built THEN "first_astream" ELSE "raised",
           astreams |-> 0, pending |-> <<>>, yielded |-> <<>>,
           response |-> NoResponse, msg |-> 0])
    /\ messages' = IF built THEN messages
                   ELSE generation_except(messages,
                            ChatMessageCreate(message, NoResponse, PyFalse), chat_id, user)
    /\ UNCHANGED <<sessions, nextSessionId, gens, docVars, uploads, configVars, providerVars, pushVars, handlerVars>>

\* llm.astream(messages): the provider starts a stream; before the second
\* call message_create.response is set to ""
gs_astream(i, stream) ==
    /\ Streaming(i) /\ streams[i].pc \in {"first_astream", "second_astream"}
    /\ stream \in ProviderStreams
    /\ SetStream(i, [streams[i] EXCEPT
          !.pending = stream,
          !.astreams = @ + 1,
          !.response = IF streams[i].pc = "second_astream" THEN <<>> ELSE @,
          !.pc = IF streams[i].pc = "first_astream" THEN "first_loop"
                 ELSE "second_loop"])
    /\ UNCHANGED <<sessions, nextSessionId, messages, gens, docVars, uploads, configVars, providerVars, pushVars, handlerVars>>

\* async for chunk in llm.astream(messages): yield chunk.content
gs_first_loop(i) ==
    /\ Streaming(i) /\ streams[i].pc = "first_loop"
    /\ SetStream(i, IF streams[i].pending = <<>>
                    THEN [streams[i] EXCEPT !.pc = "second_astream"]
                    ELSE [streams[i] EXCEPT
                            !.yielded = Append(@, Head(streams[i].pending)),
                            !.pending = Tail(@)])
    /\ UNCHANGED <<sessions, nextSessionId, messages, gens, docVars, uploads, configVars, providerVars, pushVars, handlerVars>>

\* async for chunk in llm.astream(messages):
\*     message_create.response += chunk.content; yield chunk.content
gs_second_loop(i) ==
    /\ Streaming(i) /\ streams[i].pc = "second_loop"
    /\ SetStream(i, IF streams[i].pending = <<>>
                    THEN [streams[i] EXCEPT !.pc = "create_message"]
                    ELSE [streams[i] EXCEPT
                            !.response = @ \o Head(streams[i].pending),
                            !.yielded = Append(@, Head(streams[i].pending)),
                            !.pending = Tail(@)])
    /\ UNCHANGED <<sessions, nextSessionId, messages, gens, docVars, uploads, configVars, providerVars, pushVars, handlerVars>>

\* create_message(db, message_create, chat_id, user.id); the generator ends
gs_create_message(i) ==
    /\ Streaming(i) /\ streams[i].pc = "create_message"
    /\ messages' = create_message(messages,
          ChatMessageCreate(streams[i].message, streams[i].response, PyFalse),
          streams[i].chat_id, streams[i].user)
    /\ SetStream(i, [streams[i] EXCEPT !.pc = "done", !.msg = Len(messages) + 1])
    /\ UNCHANGED <<sessions, nextSessionId, gens, docVars, uploads, configVars, providerVars, pushVars, handlerVars>>

\* the provider fails when a stream is opened or while it is read:
\* except Exception: raise
gs_raise(i) ==
    /\ Streaming(i)
    /\ streams[i].pc \in {"first_astream", "first_loop", "second_astream", "second_loop"}
    /\ SetStream(i, [streams[i] EXCEPT !.pc = "raised"])
    /\ messages' = generation_except(messages,
          ChatMessageCreate(streams[i].message, streams[i].response, PyFalse),
          streams[i].chat_id, streams[i].user)
    /\ UNCHANGED <<sessions, nextSessionId, gens, docVars, uploads, configVars, providerVars, pushVars, handlerVars>>

NextStream ==
    \/ \E u \in Users, c \in SessionIds, t \in UserTexts, built \in BOOLEAN :
          gs_call(u, c, t, built)
    \/ \E i \in StreamIds, st \in ProviderStreams : gs_astream(i, st)
    \/ \E i \in StreamIds : gs_first_loop(i)
    \/ \E i \in StreamIds : gs_second_loop(i)
    \/ \E i \in StreamIds : gs_create_message(i)
    \/ \E i \in StreamIds : gs_raise(i)

SpecStream == InitWithCollection /\ [][NextStream]_vars

\* ------------------------------------------------- non-streaming response
GenIds == 1..Len(gens)
SetGen(i, rec) == gens' = [gens EXCEPT ![i] = rec]
Generating(i) == i \in GenIds /\ gens[i].pc \notin {"not_found", "done", "raised"}

\* POST /chats/{chat_id}/messages: 404 unless the caller owns the session;
\* message.is_typing = True, create_message stores the message, and
\* generate_chat_response is scheduled with the same message object
create_new_message(chat_id, current_user, message) ==
    /\ Len(streams) + Len(gens) < MaxPosts
    /\ IF \/ get_chat_session(chat_id) = NoSession
          \/ get_chat_session(chat_id).user_id # current_user
       THEN /\ gens' = Append(gens,
                  [user |-> current_user, chat_id |-> chat_id,
                   message |-> ChatMessageCreate(message, NoResponse, PyFalse),
                   pc |-> "not_found", cause |-> None, first |-> 0, msg |-> 0])
            /\ UNCHANGED messages
       ELSE LET typing == ChatMessageCreate(message, NoResponse, PyTrue)
            IN  /\ messages' = create_message(messages, typing, chat_id, current_user)
                /\ gens' = Append(gens,
                      [user |-> current_user, chat_id |-> chat_id,
                       message |-> typing, pc |-> "scheduled", cause |-> None,
                       first |-> Len(messages) + 1, msg |-> 0])
    /\ UNCHANGED <<sessions, nextSessionId, streams, docVars, uploads, configVars, providerVars, pushVars, handlerVars>>

\* what can fail before the model is invoked: get_llm, the assembly of the
\* message list, the web search of a gemini config
BuildFailures == {"get_llm", "assembly", "web_search"}

\* the failure of step cause of generate_chat_response: the except clause
gc_fail(i, cause) ==
    /\ SetGen(i, [gens[i] EXCEPT !.pc = "raised", !.cause = cause])
    /\ messages' = generation_except(messages, gens[i].message,
                                     gens[i].chat_id, gens[i].user)

\* the background task runs generate_chat_response up to llm.invoke
gc_build(i, outcome) ==
    /\ Generating(i) /\ gens[i].pc = "scheduled"
    /\ IF outcome = "ok"
       THEN SetGen(i, [gens[i] EXCEPT !.pc = "invoke"]) /\ UNCHANGED messages
       ELSE gc_fail(i, outcome)
    /\ UNCHANGED <<sessions, nextSessionId, streams, docVars, uploads, configVars, providerVars, pushVars, handlerVars>>

\* response = llm.invoke(messages); message_create.response = response.content
gc_invoke(i, answered, content) ==
    /\ Generating(i) /\ gens[i].pc = "invoke"
    /\ IF answered
       THEN /\ SetGen(i, [gens[i] EXCEPT !.pc = "create_message",
                                         !.message.response = content])
            /\ UNCHANGED messages
       ELSE gc_fail(i, "invoke")
    /\ UNCHANGED <<sessions, nextSessionId, streams, docVars, uploads, configVars, providerVars, pushVars, handlerVars>>

\* db_message = create_message(db, message_create, chat_id, user.id);
\* return db_message -- or the commit fails
gc_create_message(i, stored) ==
    /\ Generating(i) /\ gens[i].pc = "create_message"
    /\ IF stored
       THEN /\ messages' = create_message(messages, gens[i].message,
                                           gens[i].chat_id, gens[i].user)
            /\ SetGen(i, [gens[i] EXCEPT !.pc = "done", !.msg = Len(messages) + 1])
       ELSE gc_fail(i, "create_message")
    /\ UNCHANGED <<sessions, nextSessionId, streams, docVars, uploads, configVars, providerVars, pushVars, handlerVars>>

NextGen ==
    \/ \E c \in SessionIds, u \in Users, t \in UserTexts : create_new_message(c, u, t)
    \/ \E i \in GenIds, o \in BuildFailures \cup {"ok"} : gc_build(i, o)
    \/ \E i \in GenIds, answered \in BOOLEAN, t \in ChunkTexts :
          gc_invoke(i, answered, t)
    \/ \E i \in GenIds, stored \in BOOLEAN : gc_create_message(i, stored)

\* a deployment in which alice has created her first chat session
InitChat ==
    /\ InitExceptSessions
    /\ collection = TRUE
    /\ sessions = [c \in SessionIds |->
                     IF c = 1 THEN [user_id |-> "alice", parent_id |-> 0,
                                    is_deleted |-> FALSE]
                     ELSE NoSession]
    /\ nextSessionId = 2

\* both generation functions, on that deployment
NextGenerate == NextStream \/ NextGen

SpecGenerate == InitChat /\ [][NextGenerate]_vars

\* ---------------------------------------------------------------- helpers
IsTask(r, t) == runs[r].kind = t
IsPipeline(r) == runs[r].kind = "pipeline"
\* the points run r has written
PointsOf(r) == {e \in index : e.run = r}
\* run r of process_document_task has made the queued -> processing write
\* and gone on to the work that follows it
Claimed(r) ==
    /\ IsTask(r, "process_document")
    /\ \/ runs[r].pc = "pdt_delay"
       \/ runs[r].pc \in {"pdt_except", "done"} /\ runs[r].cause \in {None, "BrokerError"}
\* the exception of run r has left process_document
Raised(r) == IsPipeline(r) /\ runs[r].pc = "raised"
\* the exception of run r has left generate_embeddings_and_store
RaisedFromStore(r) ==
    /\ IsPipeline(r)
    /\ runs[r].pc \in {"pd_except", "raised"}
    /\ runs[r].cause \in {"CollectionExists", "IndexSetupError", "IndexingError",
                          "ResourceNotFoundError"}
\* the insertion call of run r raised
InsertionFailed(r) == runs[r].cause \in {"IndexingError", "LLMError"}
Exited(r) == runs[r].pc \in {"done", "returned", "raised"}

\* ------------------------------------------------------------------ claims

\* C1: of two process_document_task runs that both read the same document
\* as queued in the same attempt, at most one makes the queued -> processing
\* transition and goes on; the other does not process the document.
C1_OneClaimant ==
    \A r1 \in RunIds, r2 \in RunIds :
        ( /\ r1 # r2
          /\ runs[r1].doc = runs[r2].doc
          /\ runs[r1].att = runs[r2].att
          /\ runs[r1].seen = QUEUED /\ runs[r2].seen = QUEUED )
        => ~(Claimed(r1) /\ Claimed(r2))

\* C2: within one attempt (no update_document in the step), a completed or
\* failed status is never changed again, and processing never goes back to
\* queued.
C2_TerminalIsFinal ==
    [][\A d \in DocIds :
          (docs[d] # NoDocument /\ docs'[d] # NoDocument /\ attempt'[d] = attempt[d])
          => /\ docs[d].status \in {COMPLETED, FAILED}
                => docs'[d].status = docs[d].status
             /\ docs[d].status = PROCESSING => docs'[d].status # QUEUED]_vars

\* C3: a completed document has had the insertion of all the chunks of its
\* current attempt return successfully.
C3_CompletedIsIndexed ==
    \A d \in DocIds :
        docs[d].status = COMPLETED
        => \E r \in RunIds : /\ runs[r].doc = d
                             /\ runs[r].att = attempt[d]
                             /\ runs[r].insertOk

\* C4: when an exception leaves process_document or
\* generate_embeddings_and_store, the row (if it still exists) is already
\* failed with a message, and the exception that leaves is the fatal one.
C4_FailedBeforeRaise ==
    \A r \in RunIds :
        ((Raised(r) \/ RaisedFromStore(r)) /\ runs[r].exitStatus # None)
        => /\ runs[r].exitStatus = FAILED
           /\ runs[r].exitMsg # None
           /\ runs[r].raised = runs[r].cause

\* C5: a failed document carries a non-empty error message.
C5_FailedHasMessage ==
    \A d \in DocIds : docs[d].status = FAILED => docs[d].error_message # None

\* C6: process_document on a document whose MIME type has no loader ends
\* with the row failed, the message naming the type, and no point written.
C6_UnsupportedEndsFailed ==
    \A r \in RunIds :
        ( /\ Raised(r)
          /\ get_document_loader(runs[r].mime) = "ValueError"
          /\ runs[r].exitStatus # None )
        => /\ runs[r].exitStatus = FAILED
           /\ runs[r].exitMsg = UnsupportedMessage(runs[r].mime)
           /\ PointsOf(r) = {}

C8_NoPartialUnderCompleted ==
    /\ \A r \in RunIds :
          (InsertionFailed(r) /\ Exited(r) /\ runs[r].exitStatus # None)
          => runs[r].exitStatus = FAILED
    /\ \A d \in DocIds :
          docs[d].status = COMPLETED
          => \A e \in index : e.document_id = d => runs[e.run].insertOk

\* C9: the collection holds the points of at most one run per document.
C9_OneRunPerDocument ==
    \A e1 \in index, e2 \in index :
        e1.document_id = e2.document_id => e1.run = e2.run

\* C10: every point of the collection belongs to an existing document.
C10_NoOrphanPoints ==
    \A e \in index : e.document_id \in Existing

\* ------------------------------------------------------------- retrieval
\* a retriever built without the filter of search_kwargs
get_retriever_unfiltered(user_id) == index

\* get_retriever(user_id): the points a similarity search of the retriever
\* can return: those whose payload has metadata.user_id equal to user_id
get_retriever(user_id) == {e \in index : e.user_id = user_id}

C12_PointsCarryOwner ==
    /\ \A e \in index : /\ e.document_id = runs[e.run].doc
                         /\ e.user_id = runs[e.run].user_id
    /\ \A d \in Existing :
          docs[d].status = COMPLETED
          => \A e \in index :
                e.document_id = d => e \in get_retriever(docs[d].user_id)

\* C13: no run of generate_embeddings_and_store fails because another run
\* created the collection first.
C13_CreateRaceIsNoOp ==
    \A r \in RunIds : IsPipeline(r) => runs[r].cause # "CollectionExists"

C15_UploadCreatesAndEnqueues ==
    \A i \in 1..Len(uploads) :
        uploads[i].sent
        => /\ uploads[i].status_code = 200
           /\ uploads[i].status = QUEUED
           /\ uploads[i].document_id \in DocIds
           /\ uploads[i].enqueued = 1

\* ------------------------------------------------------ default LLM config
\* the configs of a user that count as default: those whose flag is set and
\* the one the program serves as the default
Defaults(u) ==
    {c \in get_user_llm_configs(u) :
        configs[c].is_default = PyTrue \/ c = get_default_user_llm_config(u)}
Flagged(u) == {c \in get_user_llm_configs(u) : configs[c].is_default = PyTrue}
NoCallRunning == \A i \in CallIds : ~InCall(i)
Sequential == \A i \in CallIds : ~calls[i].overlap

\* C16: when set_default_config calls ran one after another and the last
\* one of a user returned config c, no other config of that user is a
\* default.
C16_OthersCleared ==
    \A u \in Users :
        (NoCallRunning /\ Sequential /\ lastSet[u] # 0)
        => Defaults(u) \subseteq {lastSet[u]}

C18_DefaultIsLastSet ==
    \A u \in Users :
        (NoCallRunning /\ lastSet[u] # 0)
        => /\ get_default_user_llm_config(u) = lastSet[u]
           /\ get_llm(u) = lastSet[u]

\* --------------------------------------------------------------- chat tree
\* the sessions above chat, from its parent up
RECURSIVE Ancestors(_)
Ancestors(chat) ==
    IF sessions[chat].parent_id = 0 THEN {}
    ELSE {sessions[chat].parent_id} \cup Ancestors(sessions[chat].parent_id)

\* C19: no session in the tree answered to a user is soft-deleted or lies
\* below a soft-deleted session, at any depth.
C19_TreeHidesDeleted ==
    \A u \in Users : \A chat \in get_chat_tree(u) :
        /\ ~sessions[chat].is_deleted
        /\ \A up \in Ancestors(chat) : ~sessions[up].is_deleted

\* --------------------------------------------------------------- streaming
\* the concatenation of a sequence of texts
RECURSIVE Join(_)
Join(texts) == IF texts = <<>> THEN <<>> ELSE Head(texts) \o Join(Tail(texts))

\* C20: when generate_streaming_chat_response has run to its end, the
\* increments it yielded, joined in order, are the response of the
\* ChatMessage it stored.
C20_YieldedIsPersisted ==
    \A i \in StreamIds :
        streams[i].pc = "done"
        => Join(streams[i].yielded) = messages[streams[i].msg].response

\* C21 (refuted by the code): one run of generate_streaming_chat_response
\* calls llm.astream at most once.
C21_OneProviderStream ==
    \A i \in StreamIds : streams[i].astreams <= 1

\* ---------------------------------------------------------- generation
\* some run of runs is raised after the step and was not before it
Raises(old, new) ==
    \E i \in 1..Len(new) :
        new[i].pc = "raised" /\ (i > Len(old) \/ old[i].pc # "raised")

\* C22: a step in which generate_chat_response or
\* generate_streaming_chat_response raises, whatever the failing stage,
\* leaves the chat_messages table as it was.
C22_RaiseLeavesHistory ==
    [][Raises(streams, streams') \/ Raises(gens, gens') => messages' = messages]_vars

\* a stream that failed after it had accumulated part of a response, and a
\* non-streaming run whose llm.invoke failed
C22_Witness ==
    /\ \E i \in StreamIds :
          /\ streams[i].pc = "raised"
          /\ streams[i].astreams = 2
          /\ Len(streams[i].response) > 0
    /\ \E i \in GenIds : gens[i].pc = "raised" /\ gens[i].cause = "invoke"

\* C23 (refuted by the code): when the background generate_chat_response
\* of a message has returned, neither the record create_new_message stored
\* nor the record the generation stored has is_typing true.
C23_CompletedNotTyping ==
    \A i \in GenIds :
        gens[i].pc = "done"
        => \A m \in {gens[i].first, gens[i].msg} : messages[m].is_typing = PyFalse

\* the records of a chat session that hold a user text, and the accepted
\* requests that sent it
RecordsOf(chat_id, text) ==
    {m \in 1..Len(messages) : /\ messages[m].chat_session_id = chat_id
                              /\ messages[m].message = text}
PostsOf(chat_id, text) ==
    {j \in GenIds : /\ gens[j].pc # "not_found"
                    /\ gens[j].chat_id = chat_id
                    /\ gens[j].message.message = text}

\* C24 (refuted by the code): when the request of a user message has
\* completed, the session holds that user text once per request that sent
\* it.
C24_OneRecordPerMessage ==
    \A i \in GenIds :
        gens[i].pc = "done"
        => LET chat_id == gens[i].chat_id
               text == gens[i].message.message
           IN  Cardinality(RecordsOf(chat_id, text))
                   = Cardinality(PostsOf(chat_id, text))

\* -------------------------------------------------------- WebSocketManager
\* the websockets a call has delivered message to
GotMessage(call, message) == {c \in Sockets : <<c, message>> \in call.got}

\* C25 (refuted by the code): a broadcast_message that met a connection
\* whose send failed does not end by raising, and when it has returned the
\* message has reached every connection the chat had at its start whose
\* peer is alive.
C25_DeadPeerDoesNotAbort ==
    \A i \in WsCallIds :
        LET call == wsCalls[i]
        IN  call.op = "broadcast_message" /\ call.failed # {}
            => /\ call.status # "raised"
               /\ call.status = "returned"
                    => call.peers \ closed \subseteq GotMessage(call, call.message)

\* the calls that take a step: the one begun or the one whose record changes
Stepping ==
    {i \in 1..Len(wsCalls') : i > Len(wsCalls) \/ wsCalls'[i] # wsCalls[i]}
\* the disconnect calls that begin, and those that return, in a step
Begins(i) == i \in Stepping /\ i > Len(wsCalls) /\ wsCalls'[i].op = "disconnect"
Returns(i) ==
    /\ i \in Stepping /\ wsCalls'[i].op = "disconnect"
    /\ wsCalls'[i].status = "returned"
\* the websockets whose disconnect has returned
Disconnected ==
    {wsCalls[i].websocket :
        i \in {j \in WsCallIds : /\ wsCalls[j].op = "disconnect"
                                  /\ wsCalls[j].status = "returned"}}

\* C26: once disconnect(websocket, chat_id, user_id) has returned, no call
\* sends on that websocket; a disconnect of a typing user takes the user out
\* of the typing set of the chat as it begins, and when it returns every
\* connection left in the chat has been sent the typing set without the
\* user.
C26_DisconnectStopsSends ==
    [][ /\ \A i \in Stepping :
              (wsCalls'[i].tried \ (IF i > Len(wsCalls) THEN {} ELSE wsCalls[i].tried))
                  \cap Disconnected = {}
        /\ \A i \in 1..Len(wsCalls') :
              /\ Begins(i) /\ wsCalls'[i].was_typing
                    => /\ wsCalls'[i].user_id \notin typing_users'[wsCalls'[i].chat_id]
                       /\ wsCalls'[i].message
                            = TypingStatus(typing_users'[wsCalls'[i].chat_id])
              /\ Returns(i) /\ wsCalls'[i].was_typing
                    => active_connections'[wsCalls'[i].chat_id]
                          \subseteq GotMessage(wsCalls'[i], wsCalls'[i].message)
      ]_vars

\* a disconnect of a typing user has returned after it sent the corrected
\* typing set to the other connection of the chat
C26_Witness ==
    \E i \in WsCallIds :
        /\ wsCalls[i].op = "disconnect" /\ wsCalls[i].status = "returned"
        /\ wsCalls[i].was_typing
        /\ wsCalls[i].got # {}
        /\ wsCalls[i].websocket \notin active_connections[wsCalls[i].chat_id]

\* C27: a step of connect, disconnect, broadcast_typing or broadcast_message
\* for one chat, a removal after a failed send included, leaves the
\* connection set and the typing set of every other chat as they were.
C27_OtherChatsUntouched ==
    [][ \A i \in Stepping :
           \A other \in WsChats \ {wsCalls'[i].chat_id} :
               /\ active_connections'[other] = active_connections[other]
               /\ typing_users'[other] = typing_users[other]
      ]_vars

\* a broadcast in chat 1 has removed a connection whose send failed while
\* chat 2 has a connection and a typing user
C27_Witness ==
    /\ \E i \in WsCallIds :
          /\ wsCalls[i].chat_id = 1 /\ wsCalls[i].op # "connect"
          /\ wsCalls[i].error # "KeyError"
          /\ \E c \in wsCalls[i].failed : c \notin active_connections[1]
    /\ active_connections[2] # {}
    /\ typing_users[2] # {}

\* ------------------------------------------------------ provider resolution
\* the results that are not an object with a chat interface
NotAnInterface == {None}

\* C28 (refuted by the code): a call of get_llm for a config whose
\* model_type has no branch in the dispatch raises; no call of either
\* get_llm returns None.
C28_UnsupportedTypeRaises ==
    \A i \in 1..Len(llms) : llms[i].result \notin NotAnInterface

C30_PlainTextCompletes ==
    \A r \in RunIds :
        IsPipeline(r) /\ runs[r].mime = "text/plain" /\ Exited(r)
        => /\ runs[r].pc = "returned"
           /\ Cardinality(PointsOf(r)) = 3
           /\ runs[r].exitStatus = COMPLETED

\* --------------------------------------------------- error handler middleware
\* core/exceptions.py: every class of the module derives from AppBaseException
AppExceptionClasses ==
    {"AppBaseException", "DatabaseError", "ValidationError",
     "ResourceNotFoundError", "AuthenticationError", "AuthorizationError",
     "LLMError", "OpenRouterError"}

\* the classes an instance of cls is an instance of; "Exception" stands for
\* any exception raised outside core/exceptions.py
Mro(cls) ==
    IF cls \in AppExceptionClasses
    THEN {cls, "AppBaseException", "Exception"}
    ELSE {cls, "Exception"}

isinstance(e, cls) == cls \in Mro(e.class)

\* the status codes the constructors fix or accept
StatusCodes(cls) ==
    CASE cls = "DatabaseError" -> {500}
      [] cls = "ValidationError" -> {422}
      [] cls = "ResourceNotFoundError" -> {404}
      [] cls = "AuthenticationError" -> {401}
      [] cls = "AuthorizationError" -> {403}
      [] cls = "OpenRouterError" -> {403, 429, 503}
      [] OTHER -> {500}

\* the routing metadata of an OpenRouterError: None by default
Metadata(cls) ==
    IF cls = "OpenRouterError" THEN {None, "provider_name"} ELSE {None}

\* the exceptions call_next can raise; self.metadata exists on
\* OpenRouterError only
Raisable ==
    {[class |-> cls, status_code |-> status_code, message |-> "message",
      metadata |-> metadata] :
        cls \in AppExceptionClasses \cup {"Exception"},
        status_code \in {401, 403, 404, 422, 429, 500, 503},
        metadata \in {None, "provider_name"}}

NoException ==
    [class |-> None, status_code |-> 0, message |-> None, metadata |-> None]

\* a key the JSON body does not have
Absent == "absent"

\* the except clauses of dispatch, in source order, each with the keys of
\* the "error" object its JSONResponse carries
ExceptClauses ==
    << [class |-> "AppBaseException", keys |-> {"code", "message", "type"}],
       [class |-> "OpenRouterError", keys |-> {"code", "message", "metadata"}] >>

JSONResponse(e, keys) ==
    [status_code |-> e.status_code,
     keys |-> keys,
     code |-> e.status_code,
     message |-> e.message,
     type |-> IF "type" \in keys THEN e.class ELSE Absent,
     metadata |-> IF "metadata" \in keys THEN e.metadata ELSE Absent]

\* the response of the endpoint when nothing is raised
Passed ==
    [status_code |-> 200, keys |-> {}, code |-> 0, message |-> Absent,
     type |-> Absent, metadata |-> Absent]
\* no response: the exception leaves dispatch
Propagated ==
    [status_code |-> 0, keys |-> {}, code |-> 0, message |-> Absent,
     type |-> Absent, metadata |-> Absent]

\* try/except of dispatch: the first clause, in order, whose class the
\* exception is an instance of handles it
Handled(e) ==
    LET matching == {k \in DOMAIN ExceptClauses :
                        isinstance(e, ExceptClauses[k].class)}
    IN IF e = NoException THEN Passed
       ELSE IF matching = {} THEN Propagated
       ELSE LET first == CHOOSE k \in matching : \A other \in matching : k <= other
            IN JSONResponse(e, ExceptClauses[first].keys)

\* ErrorHandlerMiddleware.dispatch for one request: call_next returns or
\* raises e
dispatch(e) ==
    /\ Len(responses) < MaxRequests
    /\ \/ e = NoException
       \/ /\ e \in Raisable
          /\ e.status_code \in StatusCodes(e.class)
          /\ e.metadata \in Metadata(e.class)
    /\ responses' = Append(responses, [raised |-> e, response |-> Handled(e)])
    /\ UNCHANGED <<assemblies, docVars, uploads, configVars, chatVars, providerVars, pushVars>>

NextErrors == \E e \in Raisable \cup {NoException} : dispatch(e)

SpecErrors == InitWithCollection /\ [][NextErrors]_vars

\* ----------------------------------------------- assembly of the message list
\* the rows of chat_messages the assembly is run on: message and response
\* may be empty ("" and the empty text) or, for the response, None
HistoryRows ==
    {[chat_session_id |-> chat_id, user_id |-> "alice", message |-> message,
      response |-> response, is_typing |-> PyFalse] :
        chat_id \in WsChats, message \in {"q1", ""},
        response \in {NoResponse, <<>>, <<"a">>}}
Histories == UNION {[1..n -> HistoryRows] : n \in 0..MaxHistory}

\* the model_type of the user's default configuration, None without one
AssemblyModelTypes == {None, "openai", "gemini", "llama"}
\* image_base64: None or an image
Images == {None, "png"}

\* get_chat_history: the rows of the chat, in insertion order
RECURSIVE get_chat_history(_, _)
get_chat_history(rows, chat_id) ==
    IF rows = <<>> THEN <<>>
    ELSE (IF Head(rows).chat_session_id = chat_id THEN <<Head(rows)>> ELSE <<>>)
         \o get_chat_history(Tail(rows), chat_id)

\* langchain messages: HumanMessage(content=text), AIMessage(content=text)
\* and the HumanMessage format_vision_message builds
HumanMessage(text) ==
    [role |-> "human", text |-> text, response |-> NoResponse,
     image |-> None, format |-> None]
AIMessage(response) ==
    [role |-> "ai", text |-> None, response |-> response,
     image |-> None, format |-> None]
VisionMessage(model_type, text, image_base64) ==
    [role |-> "human", text |-> text, response |-> NoResponse,
     image |-> image_base64, format |-> model_type]

\* the outcome of an assembly: the list, or the exception raised
Assembled(list) == [raised |-> None, messages |-> list]
AssemblyRaised(exception) == [raised |-> exception, messages |-> <<>>]

\* format_vision_message: ValueError for a model type other than openai,
\* gemini and claude
format_vision_message(model_type, text, image_base64) ==
    IF model_type \in {"openai", "gemini", "claude"}
    THEN Assembled(<<VisionMessage(model_type, text, image_base64)>>)
    ELSE AssemblyRaised("ValueError")

\* for msg in chat_history: the message, if any, as a HumanMessage and the
\* response, if any, as an AIMessage
RECURSIVE Turns(_)
Turns(chat_history) ==
    IF chat_history = <<>> THEN <<>>
    ELSE LET msg == Head(chat_history)
         IN (IF msg.message # "" THEN <<HumanMessage(msg.message)>> ELSE <<>>)
            \o (IF msg.response \notin {NoResponse, <<>>}
                THEN <<AIMessage(msg.response)>> ELSE <<>>)
            \o Turns(Tail(chat_history))

\* generate_streaming_chat_response, from messages = [] to the first astream
streaming_messages(rows, chat_id, message, image_base64, model_type) ==
    IF image_base64 # None /\ model_type # None
    THEN format_vision_message(model_type, message, image_base64)
    ELSE Assembled(Turns(get_chat_history(rows, chat_id))
                   \o <<HumanMessage(message)>>)

\* generate_chat_response, from messages = [] to the web search test
chat_messages(rows, chat_id, message, image_base64, model_type) ==
    IF image_base64 # None /\ model_type # None
    THEN format_vision_message(model_type, message, image_base64)
    ELSE Assembled(<<HumanMessage(message)>>)

\* one request, assembled by both functions from the same table, message,
\* image and configuration
assemble(rows, chat_id, message, image_base64, model_type) ==
    /\ Len(assemblies) < MaxAssemblies
    /\ assemblies' = Append(assemblies,
          [rows |-> rows, chat_id |-> chat_id, message |-> message,
           image_base64 |-> image_base64, model_type |-> model_type,
           streaming |-> streaming_messages(rows, chat_id, message,
                                            image_base64, model_type),
           chat |-> chat_messages(rows, chat_id, message, image_base64,
                                  model_type)])
    /\ UNCHANGED <<responses, docVars, uploads, configVars, chatVars, providerVars, pushVars>>

NextAssemble ==
    \E rows \in Histories, chat_id \in WsChats, message \in UserTexts,
       image_base64 \in Images, model_type \in AssemblyModelTypes :
        assemble(rows, chat_id, message, image_base64, model_type)

SpecAssemble == InitWithCollection /\ [][NextAssemble]_vars

\* C31: a DELETE request on a configuration id that has no row, or whose row
\* belongs to another user than the caller, answers 404 (and so deletes
\* nothing): only a request of the owner removes a row.
C31_OnlyOwnerDeletes ==
    \A k \in 1..Len(deletes) :
        deletes[k].owner # deletes[k].caller => deletes[k].status_code = 404

\* C32: an OpenRouterError that reaches the middleware is answered with its
\* own status code and with its routing metadata in the body, which tells the
\* response from that of a generic application error.
C32_RoutingErrorSurfaced ==
    \A k \in 1..Len(responses) :
        responses[k].raised.class = "OpenRouterError"
        => /\ responses[k].response.status_code = responses[k].raised.status_code
           /\ "metadata" \in responses[k].response.keys
           /\ responses[k].response.metadata = responses[k].raised.metadata

\* C33: within one attempt the status is written to processing once, by the
\* process_document_task run that claims the document: generate_embeddings_task,
\* queued by that run, does not write processing over the processing it
\* finds (a status of processing is always a write of the current attempt,
\* update_document resets it to queued).
C33_ProcessingWrittenOnce ==
    [][\A r \in RunIds :
          ( /\ IsTask(r, "generate_embeddings")
            /\ runs[r].pc = "get_processing"
            /\ runs'[r].pc = "get_setup" )
          => docs[runs[r].doc].status # PROCESSING]_vars

\* run r writes completed or failed to its document in this step
WritesTerminal(r) ==
    /\ runs[r].kind \in Tasks
    /\ runs[r].pc \in {"get_completed", "pdt_except", "get_except"}
    /\ runs'[r].pc = "done"
    /\ docs'[runs[r].doc] # NoDocument

\* C34: update_document on an existing document sets the status to queued
\* and clears the error message, whatever the status was, and this starts a
\* fresh attempt; a worker run that belongs to an earlier attempt does not
\* afterwards write completed or failed to the document.
C34_FreshAttemptIsNotOverwritten ==
    [][/\ \A d \in DocIds :
             attempt'[d] # attempt[d]
             => /\ docs'[d].status = QUEUED
                /\ docs'[d].error_message = None
       /\ \A r \in RunIds :
             WritesTerminal(r) => runs[r].att = attempt[runs[r].doc]]_vars

\* C35: the file_path a document was created with is never changed by a
\* later operation on the document.
C35_FilePathImmutable ==
    [][\A d \in DocIds :
          (docs[d] # NoDocument /\ docs'[d] # NoDocument)
          => docs'[d].file_path = docs[d].file_path]_vars

\* C36: from the same history, user message and image, generate_chat_response
\* and generate_streaming_chat_response assemble the same message list:
\* without an image the turns of the whole history followed by the new user
\* message, with an image one vision-formatted turn.
C36_SameAssembly ==
    \A k \in 1..Len(assemblies) :
        LET a == assemblies[k]
        IN /\ a.chat = a.streaming
           /\ (a.image_base64 = None /\ a.chat.raised = None)
              => a.chat.messages =
                    Turns(get_chat_history(a.rows, a.chat_id))
                    \o <<HumanMessage(a.message)>>
           /\ (a.image_base64 # None /\ a.chat.raised = None)
              => /\ Len(a.chat.messages) = 1
                 /\ a.chat.messages[1].image = a.image_base64

\* the handler of websocket has taken a message and is over, and nothing
\* outside it went wrong: no call of a manager coroutine it made raised
\* and no peer of the chat has gone
ServedMessage(websocket) ==
    /\ Ended(websocket)
    /\ \E i \in CallsOf(websocket) : wsCalls[i].data = "message"
    /\ \A i \in CallsOf(websocket) : wsCalls[i].status = "returned"
    /\ closed = {}

\* C37: for a message received on the websocket the session is sent, in this
\* order, the typing status with the user added, the chunks of the response
\* in the order generated, the typing status with the user removed and then
\* one message_complete: a handler that has served a message has made the
\* broadcast_typing(.., False) and the message_complete broadcast after the
\* broadcast_typing(.., True).
C37_MessageEventsInOrder ==
    \A w \in Sockets :
        ServedMessage(w)
        => \E i, j, k \in CallsOf(w) :
              /\ i < j /\ j < k
              /\ wsCalls[i].op = "broadcast_typing" /\ wsCalls[i].data = "message"
              /\ wsCalls[j].op = "broadcast_typing"
              /\ SocketUser(w) \notin wsCalls[j].message.typing_users
              /\ wsCalls[k].op = "broadcast_message"
              /\ wsCalls[k].message.type = "message_complete"

\* the websockets on which a handler of user u for chat c has been started
HandlersOf(u, c) ==
    {w \in Sockets : SocketUser(w) = u /\ SocketChat(w) = c /\ CallsOf(w) # {}}

\* C40: the typing indicator a handler raises before generation is cleared
\* by its cleanup, whether generation raised or the connection closed: once
\* every handler started for a user on a chat is over, the user is not in
\* the typing set of the chat.
C40_TypingClearedAtEnd ==
    \A u \in Users, c \in WsChats :
        (HandlersOf(u, c) # {} /\ \A w \in HandlersOf(u, c) : Ended(w))
        => u \notin typing_users[c]

\* a handler took a message, raised the typing indicator, went through its
\* finally clause while the user was typing, and every handler of the user
\* on the chat is over
C40_Witness ==
    \E w \in Sockets :
        /\ \A other \in HandlersOf(SocketUser(w), SocketChat(w)) : Ended(other)
        /\ \E i, j \in CallsOf(w) :
              /\ i < j
              /\ wsCalls[i].op = "broadcast_typing" /\ wsCalls[i].data = "message"
              /\ wsCalls[j].op = "disconnect" /\ wsCalls[j].was_typing
        /\ SocketUser(w) \notin typing_users[SocketChat(w)]

\* C38: process_document on a text/html document runs the plain-text
\* normalization before the split and never after it: a run that got past
\* loading and splitting with no failure of the file or of a library has
\* normalized, then split.
C38_HtmlNormalizedBeforeSplit ==
    \A r \in RunIds :
        ( /\ IsPipeline(r) /\ runs[r].mime = "text/html"
          /\ runs[r].pc # "pd_load"
          /\ runs[r].cause \notin {"LoadError", "SplitError"} )
        => LET stages == runs[r].stages
           IN /\ \E i, j \in DOMAIN stages :
                    i < j /\ stages[i] = "html2text" /\ stages[j] = "split"
              /\ \A i, j \in DOMAIN stages :
                    (stages[i] = "split" /\ stages[j] = "html2text") => j < i

\* C39: a document a worker has moved to processing eventually is completed
\* or failed, when the database answers and tasks are delivered: no failure
\* of a stage, of the embedding step or of the queueing of
\* generate_embeddings_task leaves it in processing for ever.
C39_ProcessingEnds ==
    \A d \in DocIds :
        (docs[d].status = PROCESSING) ~> (docs[d].status \in {COMPLETED, FAILED})

\* a task that had written processing failed in a later step and its except
\* clause has marked the document failed
C39_Witness ==
    \E r \in RunIds :
        /\ runs[r].kind \in Tasks
        /\ runs[r].pc = "done"
        /\ runs[r].cause \in {"BrokerError", "SetupError", "LLMError"}
        /\ docs[runs[r].doc].status = FAILED

====
